---- MODULE Spec2Model ----
(***************************************************************************)
(* Model of the x402 payment gate: the Express middleware returned by      *)
(* x402(config), the payment codec it uses and the facilitator client it   *)
(* awaits.                                                                 *)
(*                                                                         *)
(* JavaScript strings whose characters the code inspects (addresses,       *)
(* amounts, paths, methods, prices) are sequences of one-character         *)
(* strings.  JSON values are tagged records [t |-> type, v |-> value].     *)
(* A thrown exception is a result [ok |-> FALSE, err |-> ...].             *)
(***************************************************************************)
EXTENDS Integers, Sequences, FiniteSets, TLC

\* ------------------------------------------------------------------------
\* Bounds of the model
\* ------------------------------------------------------------------------

\* largest unix-seconds value the clock is read at
MaxNow == 2

\* ------------------------------------------------------------------------
\* Characters and strings
\* ------------------------------------------------------------------------

DigitChars == {"0", "1", "2", "3", "4", "5", "6", "7", "8", "9"}

LowerHex == {"a", "b", "c", "d", "e", "f"}

UpperHex == {"A", "B", "C", "D", "E", "F"}

HexChars == DigitChars \cup LowerHex \cup UpperHex

LowerLetters ==
  {"a", "b", "c", "d", "e", "f", "g", "h", "i", "j", "k", "l", "m",
   "n", "o", "p", "q", "r", "s", "t", "u", "v", "w", "x", "y", "z"}

UpperLetters ==
  {"A", "B", "C", "D", "E", "F", "G", "H", "I", "J", "K", "L", "M",
   "N", "O", "P", "Q", "R", "S", "T", "U", "V", "W", "X", "Y", "Z"}

\* \w of a JavaScript regular expression
WordChars == DigitChars \cup LowerLetters \cup UpperLetters \cup {"_"}

WhiteSpace == {" "}

LowerOf ==
  [c \in UpperLetters |->
     CASE c = "A" -> "a" [] c = "B" -> "b" [] c = "C" -> "c" [] c = "D" -> "d"
       [] c = "E" -> "e" [] c = "F" -> "f" [] c = "G" -> "g" [] c = "H" -> "h"
       [] c = "I" -> "i" [] c = "J" -> "j" [] c = "K" -> "k" [] c = "L" -> "l"
       [] c = "M" -> "m" [] c = "N" -> "n" [] c = "O" -> "o" [] c = "P" -> "p"
       [] c = "Q" -> "q" [] c = "R" -> "r" [] c = "S" -> "s" [] c = "T" -> "t"
       [] c = "U" -> "u" [] c = "V" -> "v" [] c = "W" -> "w" [] c = "X" -> "x"
       [] c = "Y" -> "y" [] c = "Z" -> "z"]

UpperOf ==
  [c \in LowerLetters |-> CHOOSE u \in UpperLetters : LowerOf[u] = c]

\* String.prototype.toLowerCase
toLowerCase(s) ==
  [i \in 1..Len(s) |-> IF s[i] \in UpperLetters THEN LowerOf[s[i]] ELSE s[i]]

\* String.prototype.toUpperCase
toUpperCase(s) ==
  [i \in 1..Len(s) |-> IF s[i] \in LowerLetters THEN UpperOf[s[i]] ELSE s[i]]

\* String.prototype.repeat on a one-character string
Rep(c, n) == [i \in 1..n |-> c]

\* the index after the longest run of characters of C that starts at i
RECURSIVE RunEnd(_, _, _)
RunEnd(s, i, C) ==
  IF i <= Len(s) /\ s[i] \in C THEN RunEnd(s, i + 1, C) ELSE i

StartsWithAt(s, i, p) ==
  /\ i + Len(p) - 1 <= Len(s)
  /\ SubSeq(s, i, i + Len(p) - 1) = p

AllIn(s, C) == \A i \in 1..Len(s) : s[i] \in C

\* ------------------------------------------------------------------------
\* JavaScript values
\* ------------------------------------------------------------------------

JUndef == [t |-> "undefined"]

JNull == [t |-> "null"]

JBool(b) == [t |-> "boolean", v |-> b]

JNum(n) == [t |-> "number", v |-> n]

JStr(s) == [t |-> "string", v |-> s]

JObj(f) == [t |-> "object", v |-> f]

JArr(s) == [t |-> "array", v |-> s]

\* the typeof operator
TypeOf(x) ==
  CASE x.t \in {"object", "array", "null"} -> "object"
    [] OTHER -> x.t

\* property read x.k on a value that is not null or undefined
Get(x, k) ==
  IF x.t = "object" /\ k \in DOMAIN x.v THEN x.v[k] ELSE JUndef

\* ToBoolean
Truthy(x) ==
  CASE x.t \in {"undefined", "null"} -> FALSE
    [] x.t = "boolean" -> x.v
    [] x.t = "number" -> x.v # 0 \/ "half" \in DOMAIN x
    [] x.t = "string" -> x.v # <<>>
    [] OTHER -> TRUE

\* the ?? operator
Coalesce(x, d) == IF x.t \in {"undefined", "null"} THEN d ELSE x

Ok(v) == [ok |-> TRUE, val |-> v]

Throw(name, msg) == [ok |-> FALSE, err |-> [name |-> name, message |-> msg]]

\* ------------------------------------------------------------------------
\* Text encoding: JSON and Base64
\* ------------------------------------------------------------------------

\* A text is either the JSON serialisation of a value, or text that is not
\* JSON.  A wire string is the Base64 form of a text; junk says that
\* characters outside the Base64 alphabet are mixed into it.

BadText == [wf |-> FALSE]

JWire(text, junk) == [t |-> "wire", text |-> text, junk |-> junk]

\* what JSON.stringify keeps of a value: object keys holding undefined are
\* dropped, undefined array elements become null
RECURSIVE Serialised(_)
Serialised(x) ==
  CASE x.t = "object" ->
         JObj([k \in {j \in DOMAIN x.v : x.v[j].t # "undefined"} |->
                 Serialised(x.v[k])])
    [] x.t = "array" ->
         JArr([i \in 1..Len(x.v) |->
                 IF x.v[i].t = "undefined" THEN JNull ELSE Serialised(x.v[i])])
    [] OTHER -> x

\* a serialiser that writes null for the undefined keys of the elements of
\* an array
JSONStringify_NullForUndefined(x) ==
  [wf |-> TRUE,
   val |-> IF x.t # "array" THEN Serialised(x)
           ELSE JArr([i \in 1..Len(x.v) |->
                        IF x.v[i].t # "object" THEN Serialised(JArr(<<x.v[i]>>)).v[1]
                        ELSE JObj([k \in DOMAIN x.v[i].v |->
                                     IF x.v[i].v[k].t = "undefined" THEN JNull
                                     ELSE Serialised(x.v[i].v[k])])])]

JSONStringify(x) == [wf |-> TRUE, val |-> Serialised(x)]

JSONParse(text) ==
  IF text.wf THEN Ok(text.val) ELSE Throw("SyntaxError", "Unexpected token")

\* Buffer.from(json, 'utf-8').toString('base64')
Base64Encode(text) == JWire(text, FALSE)

\* Buffer.from(encoded, 'base64').toString('utf-8'): never throws, characters
\* outside the alphabet are skipped
Base64Decode(w) == w.text

\* ------------------------------------------------------------------------
\* PaymentCodec: validation helpers
\* ------------------------------------------------------------------------

EXACT == <<"e", "x", "a", "c", "t">>

VERSION_1 == <<"1">>

VERSION_2 == <<"2", ".", "0">>

AddressHexLen == 40

SignatureHexLen == 130

NonceHexLen == 64

\* /^0x[a-fA-F0-9]{n}$/
IsHexString(s, n) ==
  /\ Len(s) = n + 2
  /\ s[1] = "0"
  /\ s[2] = "x"
  /\ \A i \in 3..Len(s) : s[i] \in HexChars

isValidAddress(addr) == IsHexString(addr, AddressHexLen)

\* /^\d+$/.test(amount) && BigInt(amount) >= 0
isValidAmount(amount) == Len(amount) > 0 /\ AllIn(amount, DigitChars)

isValidSignature(sig) == IsHexString(sig, SignatureHexLen)

isValidNonce(nonce) == IsHexString(nonce, NonceHexLen)

IsStr(x) == x.t = "string"

\* a validation that looks at payTo before the asset and the amount
validatePaymentRequirements_PayToFirst(obj) ==
  IF TypeOf(obj) # "object" \/ obj.t = "null"
    THEN Throw("Error", "Payment requirement must be an object")
  ELSE IF Get(obj, "scheme") # JStr(EXACT)
    THEN Throw("Error", "Only exact scheme is supported")
  ELSE IF ~IsStr(Get(obj, "network")) \/ ~Truthy(Get(obj, "network"))
    THEN Throw("Error", "Invalid or missing network")
  ELSE IF ~IsStr(Get(obj, "payTo")) \/ ~isValidAddress(Get(obj, "payTo").v)
    THEN Throw("Error", "Invalid or missing payTo address")
  ELSE IF ~IsStr(Get(obj, "asset")) \/ ~isValidAddress(Get(obj, "asset").v)
    THEN Throw("Error", "Invalid or missing asset address")
  ELSE IF \/ ~IsStr(Get(obj, "maxAmountRequired"))
          \/ ~isValidAmount(Get(obj, "maxAmountRequired").v)
    THEN Throw("Error", "Invalid or missing maxAmountRequired")
  ELSE Ok(JUndef)

validatePaymentRequirements(obj) ==
  IF TypeOf(obj) # "object" \/ obj.t = "null"
    THEN Throw("Error", "Payment requirement must be an object")
  ELSE IF Get(obj, "scheme") # JStr(EXACT)
    THEN Throw("Error", "Only exact scheme is supported")
  ELSE IF ~IsStr(Get(obj, "network")) \/ ~Truthy(Get(obj, "network"))
    THEN Throw("Error", "Invalid or missing network")
  ELSE IF ~IsStr(Get(obj, "asset")) \/ ~isValidAddress(Get(obj, "asset").v)
    THEN Throw("Error", "Invalid or missing asset address")
  ELSE IF \/ ~IsStr(Get(obj, "maxAmountRequired"))
          \/ ~isValidAmount(Get(obj, "maxAmountRequired").v)
    THEN Throw("Error", "Invalid or missing maxAmountRequired")
  ELSE IF ~IsStr(Get(obj, "payTo")) \/ ~isValidAddress(Get(obj, "payTo").v)
    THEN Throw("Error", "Invalid or missing payTo address")
  ELSE Ok(JUndef)

validateAuthorization(obj) ==
  IF TypeOf(obj) # "object" \/ obj.t = "null"
    THEN Throw("Error", "Authorization must be an object")
  ELSE IF ~IsStr(Get(obj, "from")) \/ ~isValidAddress(Get(obj, "from").v)
    THEN Throw("Error", "Invalid or missing from address")
  ELSE IF ~IsStr(Get(obj, "to")) \/ ~isValidAddress(Get(obj, "to").v)
    THEN Throw("Error", "Invalid or missing to address")
  ELSE IF ~IsStr(Get(obj, "value")) \/ ~isValidAmount(Get(obj, "value").v)
    THEN Throw("Error", "Invalid or missing value")
  ELSE IF Get(obj, "validAfter").t # "number" \/ Get(obj, "validAfter").v < 0
    THEN Throw("Error", "Invalid or missing validAfter")
  ELSE IF Get(obj, "validBefore").t # "number" \/ Get(obj, "validBefore").v < 0
    THEN Throw("Error", "Invalid or missing validBefore")
  ELSE IF ~IsStr(Get(obj, "nonce")) \/ ~isValidNonce(Get(obj, "nonce").v)
    THEN Throw("Error", "Invalid or missing nonce")
  ELSE Ok(JUndef)

validatePaymentPayload(obj) ==
  IF TypeOf(obj) # "object" \/ obj.t = "null"
    THEN Throw("Error", "Payment payload must be an object")
  ELSE IF Get(obj, "x402Version") # JStr(VERSION_2)
          /\ Get(obj, "x402Version") # JStr(VERSION_1)
    THEN Throw("Error", "Invalid x402Version")
  ELSE IF Get(obj, "scheme") # JStr(EXACT)
    THEN Throw("Error", "Only exact scheme is supported")
  ELSE IF ~IsStr(Get(obj, "network")) \/ ~Truthy(Get(obj, "network"))
    THEN Throw("Error", "Invalid or missing network")
  ELSE IF TypeOf(Get(obj, "payload")) # "object" \/ Get(obj, "payload").t = "null"
    THEN Throw("Error", "Invalid or missing payload object")
  ELSE IF \/ ~IsStr(Get(Get(obj, "payload"), "signature"))
          \/ ~isValidSignature(Get(Get(obj, "payload"), "signature").v)
    THEN Throw("Error", "Invalid or missing signature")
  ELSE IF \/ TypeOf(Get(Get(obj, "payload"), "authorization")) # "object"
          \/ Get(Get(obj, "payload"), "authorization").t = "null"
    THEN Throw("Error", "Invalid or missing authorization")
  ELSE validateAuthorization(Get(Get(obj, "payload"), "authorization"))

\* the catch clause shared by the decode functions: a SyntaxError is
\* replaced, any other error is rethrown
RethrowDecode(r, what) ==
  IF ~r.ok /\ r.err.name = "SyntaxError"
    THEN Throw("Error", what)
    ELSE r

\* ------------------------------------------------------------------------
\* PaymentCodec: encode and decode
\* ------------------------------------------------------------------------

encodePaymentRequirements(requirements) ==
  Base64Encode(JSONStringify(requirements))

decodePaymentRequirements(encoded) ==
  LET parsed == JSONParse(Base64Decode(encoded))
      bad == IF parsed.ok /\ parsed.val.t = "array"
               THEN {i \in 1..Len(parsed.val.v) :
                       ~validatePaymentRequirements(parsed.val.v[i]).ok}
               ELSE {}
      first == CHOOSE i \in bad : \A j \in bad : i <= j
      r == IF ~parsed.ok THEN parsed
           ELSE IF parsed.val.t # "array"
             THEN Throw("Error", "Payment requirements must be an array")
           ELSE IF bad # {}
             THEN validatePaymentRequirements(parsed.val.v[first])
           ELSE parsed
  IN RethrowDecode(r, "Invalid Base64 or JSON in payment requirements")

decodePaymentPayload(encoded) ==
  LET parsed == JSONParse(Base64Decode(encoded))
      r == IF ~parsed.ok THEN parsed
           ELSE IF ~validatePaymentPayload(parsed.val).ok
             THEN validatePaymentPayload(parsed.val)
           ELSE parsed
  IN RethrowDecode(r, "Invalid Base64 or JSON in payment payload")

encodePaymentPayload(payload) == Base64Encode(JSONStringify(payload))

encodeSettlementResponse(response) == Base64Encode(JSONStringify(response))

decodeSettlementResponse(encoded) ==
  RethrowDecode(JSONParse(Base64Decode(encoded)),
                "Invalid Base64 or JSON in settlement response")

createPaymentRequirements(params) ==
  JObj([scheme |-> JStr(EXACT),
        network |-> params.network,
        asset |-> params.asset,
        maxAmountRequired |-> params.amount,
        payTo |-> params.recipient,
        description |-> params.description,
        resource |-> params.resource])

\* ------------------------------------------------------------------------
\* Numbers: parseFloat, Math.round, Number.prototype.toString, BigInt
\* ------------------------------------------------------------------------

\* A number is NaN, an infinity, or a finite decimal kept as the digits of
\* its integer and fractional parts.  The decimal is exact: the model covers
\* literals of at most 15 significant digits, which a double represents to
\* within half a base unit after scaling, and powers of ten up to 1e21,
\* which a double represents exactly.

NaN == [k |-> "nan"]

INFINITY == <<"I", "n", "f", "i", "n", "i", "t", "y">>

IsZeroDigits(d) == AllIn(d, {"0"})

\* parseFloat on strings without an exponent part: leading white space, an
\* optional sign, then Infinity or the longest decimal literal; what follows
\* is ignored
parseFloat(s) ==
  LET i0 == RunEnd(s, 1, WhiteSpace)
      hasSign == i0 <= Len(s) /\ s[i0] \in {"+", "-"}
      neg == hasSign /\ s[i0] = "-"
      i1 == IF hasSign THEN i0 + 1 ELSE i0
      i2 == RunEnd(s, i1, DigitChars)
      hasDot == i2 <= Len(s) /\ s[i2] = "."
      i3 == IF hasDot THEN RunEnd(s, i2 + 1, DigitChars) ELSE i2
      int == SubSeq(s, i1, i2 - 1)
      frac == IF hasDot THEN SubSeq(s, i2 + 1, i3 - 1) ELSE <<>>
  IN IF StartsWithAt(s, i1, INFINITY) THEN [k |-> "inf", neg |-> neg]
     ELSE IF int = <<>> /\ frac = <<>> THEN NaN
     ELSE [k |-> "fin", neg |-> neg, int |-> int, frac |-> frac]

isNaN(x) == x.k = "nan"

NumIsZero(x) == x.k = "fin" /\ IsZeroDigits(x.int) /\ IsZeroDigits(x.frac)

\* x < 0 (false for NaN and for -0)
NumNegative(x) == x.k # "nan" /\ x.neg /\ ~NumIsZero(x)

\* x <= 0 (false for NaN)
NumNonPositive(x) == NumNegative(x) \/ NumIsZero(x)

StripZeros(d) ==
  LET i == RunEnd(d, 1, {"0"})
  IN IF i > Len(d) THEN <<"0">> ELSE SubSeq(d, i, Len(d))

SuccDigit ==
  [c \in DigitChars \ {"9"} |->
     CASE c = "0" -> "1" [] c = "1" -> "2" [] c = "2" -> "3" [] c = "3" -> "4"
       [] c = "4" -> "5" [] c = "5" -> "6" [] c = "6" -> "7" [] c = "7" -> "8"
       [] c = "8" -> "9"]

\* d + 1 on a digit string
RECURSIVE Increment(_)
Increment(d) ==
  IF d = <<>> THEN <<"1">>
  ELSE IF d[Len(d)] = "9"
    THEN Increment(SubSeq(d, 1, Len(d) - 1)) \o <<"0">>
    ELSE SubSeq(d, 1, Len(d) - 1) \o <<SuccDigit[d[Len(d)]]>>

USDC_DECIMALS == 6

\* largest number of integer digits that toString prints without an exponent
MaxPlainDigits == 21

\* Math.round(price * 1_000_000) for a finite price that is not negative:
\* the digits of the rounded product, halves rounded up
RoundScaled(x) ==
  LET padded == x.frac \o Rep("0", USDC_DECIMALS)
      kept == x.int \o SubSeq(padded, 1, USDC_DECIMALS)
      up == Len(x.frac) > USDC_DECIMALS
            /\ x.frac[USDC_DECIMALS + 1] \in {"5", "6", "7", "8", "9"}
  IN StripZeros(IF up THEN Increment(kept) ELSE kept)

DigitOf ==
  [n \in 0..9 |->
     CASE n = 0 -> "0" [] n = 1 -> "1" [] n = 2 -> "2" [] n = 3 -> "3"
       [] n = 4 -> "4" [] n = 5 -> "5" [] n = 6 -> "6" [] n = 7 -> "7"
       [] n = 8 -> "8" [] n = 9 -> "9"]

RECURSIVE NatToDigits(_)
NatToDigits(n) ==
  IF n < 10 THEN <<DigitOf[n]>>
  ELSE NatToDigits(n \div 10) \o <<DigitOf[n % 10]>>

\* Number.prototype.toString of a non-negative integer given by its digits:
\* plain up to 21 digits, exponent notation from 1e21 on
IntToString(d) ==
  IF Len(d) <= MaxPlainDigits THEN d
  ELSE LET last == CHOOSE i \in 1..Len(d) :
                     /\ (d[i] # "0" \/ i = 1)
                     /\ \A j \in (i + 1)..Len(d) : d[j] = "0"
           mant == IF last = 1 THEN <<d[1]>>
                   ELSE <<d[1], ".">> \o SubSeq(d, 2, last)
       IN mant \o <<"e", "+">> \o NatToDigits(Len(d) - 1)

usdToBaseUnits(usdPrice) ==
  LET price == parseFloat(usdPrice)
  IN IF isNaN(price) \/ NumNegative(price)
       THEN Throw("Error", "Invalid USD price")
     ELSE IF price.k = "inf" THEN Ok(INFINITY)
     ELSE Ok(IntToString(RoundScaled(price)))

\* BigInt(s) on a string: the digits without leading zeros; a string that is
\* not a decimal literal throws a SyntaxError
BigInt(s) ==
  IF Len(s) > 0 /\ AllIn(s, DigitChars)
    THEN Ok(StripZeros(s))
    ELSE Throw("SyntaxError", "Cannot convert to a BigInt")

DigitVal(c) == CHOOSE n \in 0..9 : DigitOf[n] = c

\* a < b on two BigInt values (digit strings without leading zeros)
BigLess(a, b) ==
  \/ Len(a) < Len(b)
  \/ /\ Len(a) = Len(b)
     /\ \E i \in 1..Len(a) :
          /\ DigitVal(a[i]) < DigitVal(b[i])
          /\ \A j \in 1..(i - 1) : a[j] = b[j]

\* String.prototype.padStart(n, '0')
padStart(s, n) == Rep("0", n - Len(s)) \o s

\* s.replace(/0+$/, '')
RECURSIVE TrimTrailingZeros(_)
TrimTrailingZeros(s) ==
  IF s # <<>> /\ s[Len(s)] = "0"
    THEN TrimTrailingZeros(SubSeq(s, 1, Len(s) - 1))
    ELSE s

\* units / 1000000n on the digits of a BigInt that is not negative
BigDivMillion(units) ==
  IF Len(units) <= USDC_DECIMALS THEN <<"0">>
  ELSE SubSeq(units, 1, Len(units) - USDC_DECIMALS)

\* units % 1000000n
BigModMillion(units) ==
  IF Len(units) <= USDC_DECIMALS THEN units
  ELSE StripZeros(SubSeq(units, Len(units) - USDC_DECIMALS + 1, Len(units)))

\* a conversion that drops every trailing zero of the fraction
baseUnitsToUsd_TrimAll(baseUnits) ==
  LET units == BigInt(baseUnits)
      fractionalStr == padStart(BigModMillion(units.val), USDC_DECIMALS)
  IN IF ~units.ok THEN units
     ELSE Ok(BigDivMillion(units.val) \o <<".">> \o TrimTrailingZeros(fractionalStr))

\* baseUnitsToUsd on the digits of an amount that is not negative
baseUnitsToUsd(baseUnits) ==
  LET units == BigInt(baseUnits)
      wholePart == BigDivMillion(units.val)
      fractionalStr == padStart(BigModMillion(units.val), USDC_DECIMALS)
      trimmed == TrimTrailingZeros(fractionalStr)
  IN IF ~units.ok THEN units
     ELSE Ok(wholePart \o <<".">>
               \o (IF Len(trimmed) < 2 THEN SubSeq(fractionalStr, 1, 2)
                   ELSE trimmed))

\* ------------------------------------------------------------------------
\* Constants of the protocol types
\* ------------------------------------------------------------------------

NET_BASE == <<"e", "i", "p", "1", "5", "5", ":", "8", "4", "5", "3">>

NET_BASE_SEPOLIA == <<"e", "i", "p", "1", "5", "5", ":", "8", "4", "5", "3", "2">>

NET_POLYGON == <<"e", "i", "p", "1", "5", "5", ":", "1", "3", "7">>

NET_ETHEREUM == <<"e", "i", "p", "1", "5", "5", ":", "1">>

NET_ARBITRUM == <<"e", "i", "p", "1", "5", "5", ":", "4", "2", "1", "6", "1">>

NET_OPTIMISM == <<"e", "i", "p", "1", "5", "5", ":", "1", "0">>

\* USDC contract addresses by network
USDC_ADDRESSES ==
  NET_BASE :>
      <<"0", "x", "8", "3", "3", "5", "8", "9", "f", "C", "D", "6", "e", "D",
        "b", "6", "E", "0", "8", "f", "4", "c", "7", "C", "3", "2", "D", "4",
        "f", "7", "1", "b", "5", "4", "b", "d", "A", "0", "2", "9", "1", "3">>
  @@ NET_BASE_SEPOLIA :>
      <<"0", "x", "0", "3", "6", "C", "b", "D", "5", "3", "8", "4", "2", "c",
        "5", "4", "2", "6", "6", "3", "4", "e", "7", "9", "2", "9", "5", "4",
        "1", "e", "C", "2", "3", "1", "8", "f", "3", "d", "C", "F", "7", "e">>
  @@ NET_POLYGON :>
      <<"0", "x", "3", "c", "4", "9", "9", "c", "5", "4", "2", "c", "E", "F",
        "5", "E", "3", "8", "1", "1", "e", "1", "1", "9", "2", "c", "e", "7",
        "0", "d", "8", "c", "C", "0", "3", "d", "5", "c", "3", "3", "5", "9">>
  @@ NET_ETHEREUM :>
      <<"0", "x", "A", "0", "b", "8", "6", "9", "9", "1", "c", "6", "2", "1",
        "8", "b", "3", "6", "c", "1", "d", "1", "9", "D", "4", "a", "2", "e",
        "9", "E", "b", "0", "c", "E", "3", "6", "0", "6", "e", "B", "4", "8">>
  @@ NET_ARBITRUM :>
      <<"0", "x", "a", "f", "8", "8", "d", "0", "6", "5", "e", "7", "7", "c",
        "8", "c", "C", "2", "2", "3", "9", "3", "2", "7", "C", "5", "E", "D",
        "b", "3", "A", "4", "3", "2", "2", "6", "8", "e", "5", "8", "3", "1">>
  @@ NET_OPTIMISM :>
      <<"0", "x", "0", "b", "2", "C", "6", "3", "9", "c", "5", "3", "3", "8",
        "1", "3", "f", "4", "A", "a", "9", "D", "7", "8", "3", "7", "C", "A",
        "f", "6", "2", "6", "5", "3", "d", "0", "9", "7", "F", "f", "8", "5">>

DEFAULT_NETWORK == NET_BASE

\* names of the HTTP headers
HEADERS ==
  [PAYMENT_REQUIRED |-> "x-payment-required",
   PAYMENT |-> "x-payment",
   PAYMENT_RESPONSE |-> "x-payment-response"]

\* ------------------------------------------------------------------------
\* Middleware helpers
\* ------------------------------------------------------------------------

\* A configuration is a record of JavaScript values: recipient, price,
\* description and network are strings or undefined, routes is undefined or
\* a sequence of route records, onPayment and onError say whether the
\* callback is configured.  A route record has path, price, description and
\* methods (undefined or a sequence of strings).

HasRoutes(config) == config.routes.t = "array" /\ Len(config.routes.v) > 0

\* the route prices that validateConfig rejects
BadRoutes(config) ==
  IF config.routes.t # "array" THEN {}
  ELSE {i \in 1..Len(config.routes.v) :
          \/ ~Truthy(config.routes.v[i].path)
          \/ isNaN(parseFloat(config.routes.v[i].price.v))
          \/ NumNonPositive(parseFloat(config.routes.v[i].price.v))}

validateConfig(config) ==
  IF ~Truthy(config.recipient)
    THEN Throw("Error", "recipient is required")
  ELSE IF ~isValidAddress(config.recipient.v)
    THEN Throw("Error", "recipient must be a valid Ethereum address")
  ELSE IF ~Truthy(config.price) /\ ~HasRoutes(config)
    THEN Throw("Error", "Either price or routes must be specified")
  ELSE IF /\ Truthy(config.price)
          /\ \/ isNaN(parseFloat(config.price.v))
             \/ NumNonPositive(parseFloat(config.price.v))
    THEN Throw("Error", "price must be a positive number")
  ELSE IF BadRoutes(config) # {}
    THEN LET i == CHOOSE i \in BadRoutes(config) :
                    \A j \in BadRoutes(config) : i <= j
         IN IF ~Truthy(config.routes.v[i].path)
              THEN Throw("Error", "Each route must have a path")
              ELSE Throw("Error", "Invalid price for route")
  ELSE Ok(JUndef)

\* A compiled pattern is a sequence of tokens: a literal character, "any"
\* for .* and "seg" for [^/]+ ; the pattern is anchored at both ends.
RECURSIVE PatternTokens(_, _)
PatternTokens(path, i) ==
  IF i > Len(path) THEN <<>>
  ELSE IF path[i] = "*"
    THEN <<[k |-> "any"]>> \o PatternTokens(path, i + 1)
  ELSE IF path[i] = ":" /\ RunEnd(path, i + 1, WordChars) > i + 1
    THEN <<[k |-> "seg"]>> \o PatternTokens(path, RunEnd(path, i + 1, WordChars))
  ELSE <<[k |-> "lit", c |-> path[i]]>> \o PatternTokens(path, i + 1)

\* a pattern that is not anchored at its end
pathToRegex_Prefix(path) == PatternTokens(path, 1) \o <<[k |-> "any"]>>

pathToRegex(path) == PatternTokens(path, 1)

\* RegExp.prototype.test of the compiled pattern from token i and character j
RECURSIVE MatchFrom(_, _, _, _)
MatchFrom(pattern, i, path, j) ==
  IF i > Len(pattern) THEN j > Len(path)
  ELSE IF pattern[i].k = "lit"
    THEN /\ j <= Len(path)
         /\ path[j] = pattern[i].c
         /\ MatchFrom(pattern, i + 1, path, j + 1)
  ELSE IF pattern[i].k = "any"
    THEN \E n \in j..(Len(path) + 1) : MatchFrom(pattern, i + 1, path, n)
  ELSE \E n \in (j + 1)..(Len(path) + 1) :
         /\ \A m \in j..(n - 1) : path[m] # "/"
         /\ MatchFrom(pattern, i + 1, path, n)

RegexTest(pattern, path) == MatchFrom(pattern, 1, path, 1)

GET == <<"G", "E", "T">>

POST == <<"P", "O", "S", "T">>

PUT == <<"P", "U", "T">>

DELETE == <<"D", "E", "L", "E", "T", "E">>

PATCH == <<"P", "A", "T", "C", "H">>

DefaultMethods == <<GET, POST, PUT, DELETE, PATCH>>

\* matchers that keep the declared methods in the case they were written
createRouteMatchers_CaseSensitive(config) ==
  IF ~HasRoutes(config) THEN <<>>
  ELSE [i \in 1..Len(config.routes.v) |->
          LET route == config.routes.v[i]
              methods == IF route.methods.t = "array"
                           THEN route.methods.v ELSE DefaultMethods
          IN [pattern |-> pathToRegex(route.path.v),
              methods |-> {methods[m] : m \in 1..Len(methods)},
              config |-> route]]

createRouteMatchers(config) ==
  IF ~HasRoutes(config) THEN <<>>
  ELSE [i \in 1..Len(config.routes.v) |->
          LET route == config.routes.v[i]
              methods == IF route.methods.t = "array"
                           THEN route.methods.v ELSE DefaultMethods
          IN [pattern |-> pathToRegex(route.path.v),
              methods |-> {toUpperCase(methods[m]) : m \in 1..Len(methods)},
              config |-> route]]

STAR == <<"*">>

\* a resolution in which the rule declared last wins
findMatchingRoute_LastWins(path, method, matchers, config) ==
  LET hits == {i \in 1..Len(matchers) :
                 /\ RegexTest(matchers[i].pattern, path)
                 /\ toUpperCase(method) \in matchers[i].methods}
  IN IF Len(matchers) > 0
       THEN IF hits # {}
              THEN matchers[CHOOSE i \in hits : \A j \in hits : i >= j].config
              ELSE JNull
     ELSE IF Truthy(config.price)
       THEN [path |-> JStr(STAR),
             price |-> config.price,
             description |-> config.description,
             methods |-> JUndef]
     ELSE JNull

\* a resolution whose blanket price covers the default methods only
findMatchingRoute_BlanketDefaultMethods(path, method, matchers, config) ==
  LET hits == {i \in 1..Len(matchers) :
                 /\ RegexTest(matchers[i].pattern, path)
                 /\ toUpperCase(method) \in matchers[i].methods}
  IN IF Len(matchers) > 0
       THEN IF hits # {}
              THEN matchers[CHOOSE i \in hits : \A j \in hits : i <= j].config
              ELSE JNull
     ELSE IF /\ Truthy(config.price)
             /\ \E m \in DOMAIN DefaultMethods : DefaultMethods[m] = toUpperCase(method)
       THEN [path |-> JStr(STAR),
             price |-> config.price,
             description |-> config.description,
             methods |-> JUndef]
     ELSE JNull

\* a resolution that falls back to the blanket price when no rule matches
findMatchingRoute_BlanketFallback(path, method, matchers, config) ==
  LET hits == {i \in 1..Len(matchers) :
                 /\ RegexTest(matchers[i].pattern, path)
                 /\ toUpperCase(method) \in matchers[i].methods}
  IN IF hits # {}
       THEN matchers[CHOOSE i \in hits : \A j \in hits : i <= j].config
     ELSE IF Truthy(config.price)
       THEN [path |-> JStr(STAR),
             price |-> config.price,
             description |-> config.description,
             methods |-> JUndef]
     ELSE JNull

findMatchingRoute(path, method, matchers, config) ==
  LET hits == {i \in 1..Len(matchers) :
                 /\ RegexTest(matchers[i].pattern, path)
                 /\ toUpperCase(method) \in matchers[i].methods}
  IN IF Len(matchers) > 0
       THEN IF hits # {}
              THEN matchers[CHOOSE i \in hits : \A j \in hits : i <= j].config
              ELSE JNull
     ELSE IF Truthy(config.price)
       THEN [path |-> JStr(STAR),
             price |-> config.price,
             description |-> config.description,
             methods |-> JUndef]
     ELSE JNull

MsPerSecond == 1000

\* the authorization of a decoded payload
AuthOf(payload) == Get(Get(payload, "payload"), "authorization")

\* a validator that leaves the amount check out
validatePaymentAgainstRequirements_NoAmount(payload, requirements, dateNow) ==
  LET auth == AuthOf(payload)
      paymentAmount == BigInt(Get(auth, "value").v)
      requiredAmount == BigInt(Get(requirements, "maxAmountRequired").v)
      now == dateNow \div MsPerSecond
  IN IF Get(payload, "network") # Get(requirements, "network")
       THEN Ok([k |-> "Network mismatch",
                expected |-> Get(requirements, "network"),
                got |-> Get(payload, "network")])
     ELSE IF toLowerCase(Get(auth, "to").v)
               # toLowerCase(Get(requirements, "payTo").v)
       THEN Ok([k |-> "Recipient mismatch",
                expected |-> Get(requirements, "payTo"),
                got |-> Get(auth, "to")])
     ELSE IF ~paymentAmount.ok THEN paymentAmount
     ELSE IF ~requiredAmount.ok THEN requiredAmount
     ELSE IF FALSE
       THEN Ok([k |-> "Insufficient amount",
                expected |-> Get(requirements, "maxAmountRequired"),
                got |-> Get(auth, "value")])
     ELSE IF Get(auth, "validAfter").v > now
       THEN Ok([k |-> "Payment not yet valid",
                got |-> Get(auth, "validAfter")])
     ELSE IF Get(auth, "validBefore").v < now
       THEN Ok([k |-> "Payment expired",
                got |-> Get(auth, "validBefore")])
     ELSE Ok(JNull)

\* a validator that checks the amount before the network and the recipient
validatePaymentAgainstRequirements_AmountFirst(payload, requirements, dateNow) ==
  LET auth == AuthOf(payload)
      paymentAmount == BigInt(Get(auth, "value").v)
      requiredAmount == BigInt(Get(requirements, "maxAmountRequired").v)
      now == dateNow \div MsPerSecond
  IN IF ~paymentAmount.ok THEN paymentAmount
     ELSE IF ~requiredAmount.ok THEN requiredAmount
     ELSE IF BigLess(paymentAmount.val, requiredAmount.val)
       THEN Ok([k |-> "Insufficient amount",
                expected |-> Get(requirements, "maxAmountRequired"),
                got |-> Get(auth, "value")])
     ELSE IF Get(payload, "network") # Get(requirements, "network")
       THEN Ok([k |-> "Network mismatch",
                expected |-> Get(requirements, "network"),
                got |-> Get(payload, "network")])
     ELSE IF toLowerCase(Get(auth, "to").v)
               # toLowerCase(Get(requirements, "payTo").v)
       THEN Ok([k |-> "Recipient mismatch",
                expected |-> Get(requirements, "payTo"),
                got |-> Get(auth, "to")])
     ELSE IF Get(auth, "validAfter").v > now
       THEN Ok([k |-> "Payment not yet valid",
                got |-> Get(auth, "validAfter")])
     ELSE IF Get(auth, "validBefore").v < now
       THEN Ok([k |-> "Payment expired",
                got |-> Get(auth, "validBefore")])
     ELSE Ok(JNull)

\* a validator whose time window excludes its two bounds
validatePaymentAgainstRequirements_ExclusiveWindow(payload, requirements, dateNow) ==
  LET auth == AuthOf(payload)
      paymentAmount == BigInt(Get(auth, "value").v)
      requiredAmount == BigInt(Get(requirements, "maxAmountRequired").v)
      now == dateNow \div MsPerSecond
  IN IF Get(payload, "network") # Get(requirements, "network")
       THEN Ok([k |-> "Network mismatch",
                expected |-> Get(requirements, "network"),
                got |-> Get(payload, "network")])
     ELSE IF toLowerCase(Get(auth, "to").v)
               # toLowerCase(Get(requirements, "payTo").v)
       THEN Ok([k |-> "Recipient mismatch",
                expected |-> Get(requirements, "payTo"),
                got |-> Get(auth, "to")])
     ELSE IF ~paymentAmount.ok THEN paymentAmount
     ELSE IF ~requiredAmount.ok THEN requiredAmount
     ELSE IF BigLess(paymentAmount.val, requiredAmount.val)
       THEN Ok([k |-> "Insufficient amount",
                expected |-> Get(requirements, "maxAmountRequired"),
                got |-> Get(auth, "value")])
     ELSE IF Get(auth, "validAfter").v >= now
       THEN Ok([k |-> "Payment not yet valid",
                got |-> Get(auth, "validAfter")])
     ELSE IF Get(auth, "validBefore").v <= now
       THEN Ok([k |-> "Payment expired",
                got |-> Get(auth, "validBefore")])
     ELSE Ok(JNull)

\* a validator that refuses a value equal to the required amount
validatePaymentAgainstRequirements_StrictlyMore(payload, requirements, dateNow) ==
  LET auth == AuthOf(payload)
      paymentAmount == BigInt(Get(auth, "value").v)
      requiredAmount == BigInt(Get(requirements, "maxAmountRequired").v)
      now == dateNow \div MsPerSecond
  IN IF Get(payload, "network") # Get(requirements, "network")
       THEN Ok([k |-> "Network mismatch",
                expected |-> Get(requirements, "network"),
                got |-> Get(payload, "network")])
     ELSE IF toLowerCase(Get(auth, "to").v)
               # toLowerCase(Get(requirements, "payTo").v)
       THEN Ok([k |-> "Recipient mismatch",
                expected |-> Get(requirements, "payTo"),
                got |-> Get(auth, "to")])
     ELSE IF ~paymentAmount.ok THEN paymentAmount
     ELSE IF ~requiredAmount.ok THEN requiredAmount
     ELSE IF ~BigLess(requiredAmount.val, paymentAmount.val)
       THEN Ok([k |-> "Insufficient amount",
                expected |-> Get(requirements, "maxAmountRequired"),
                got |-> Get(auth, "value")])
     ELSE IF Get(auth, "validAfter").v > now
       THEN Ok([k |-> "Payment not yet valid",
                got |-> Get(auth, "validAfter")])
     ELSE IF Get(auth, "validBefore").v < now
       THEN Ok([k |-> "Payment expired",
                got |-> Get(auth, "validBefore")])
     ELSE Ok(JNull)

\* a validator that compares the recipient with its letter case
validatePaymentAgainstRequirements_ExactRecipient(payload, requirements, dateNow) ==
  LET auth == AuthOf(payload)
      paymentAmount == BigInt(Get(auth, "value").v)
      requiredAmount == BigInt(Get(requirements, "maxAmountRequired").v)
      now == dateNow \div MsPerSecond
  IN IF Get(payload, "network") # Get(requirements, "network")
       THEN Ok([k |-> "Network mismatch",
                expected |-> Get(requirements, "network"),
                got |-> Get(payload, "network")])
     ELSE IF Get(auth, "to").v # Get(requirements, "payTo").v
       THEN Ok([k |-> "Recipient mismatch",
                expected |-> Get(requirements, "payTo"),
                got |-> Get(auth, "to")])
     ELSE IF ~paymentAmount.ok THEN paymentAmount
     ELSE IF ~requiredAmount.ok THEN requiredAmount
     ELSE IF BigLess(paymentAmount.val, requiredAmount.val)
       THEN Ok([k |-> "Insufficient amount",
                expected |-> Get(requirements, "maxAmountRequired"),
                got |-> Get(auth, "value")])
     ELSE IF Get(auth, "validAfter").v > now
       THEN Ok([k |-> "Payment not yet valid",
                got |-> Get(auth, "validAfter")])
     ELSE IF Get(auth, "validBefore").v < now
       THEN Ok([k |-> "Payment expired",
                got |-> Get(auth, "validBefore")])
     ELSE Ok(JNull)

\* a validator without the check of validBefore
validatePaymentAgainstRequirements_NoExpiry(payload, requirements, dateNow) ==
  LET auth == AuthOf(payload)
      paymentAmount == BigInt(Get(auth, "value").v)
      requiredAmount == BigInt(Get(requirements, "maxAmountRequired").v)
      now == dateNow \div MsPerSecond
  IN IF Get(payload, "network") # Get(requirements, "network")
       THEN Ok([k |-> "Network mismatch",
                expected |-> Get(requirements, "network"),
                got |-> Get(payload, "network")])
     ELSE IF toLowerCase(Get(auth, "to").v)
               # toLowerCase(Get(requirements, "payTo").v)
       THEN Ok([k |-> "Recipient mismatch",
                expected |-> Get(requirements, "payTo"),
                got |-> Get(auth, "to")])
     ELSE IF ~paymentAmount.ok THEN paymentAmount
     ELSE IF ~requiredAmount.ok THEN requiredAmount
     ELSE IF BigLess(paymentAmount.val, requiredAmount.val)
       THEN Ok([k |-> "Insufficient amount",
                expected |-> Get(requirements, "maxAmountRequired"),
                got |-> Get(auth, "value")])
     ELSE IF Get(auth, "validAfter").v > now
       THEN Ok([k |-> "Payment not yet valid",
                got |-> Get(auth, "validAfter")])
     ELSE Ok(JNull)

\* The result is null when the payment is valid, else the message; dateNow
\* is the value of Date.now() in milliseconds.  BigInt throws on a required
\* amount that is not a decimal literal.
validatePaymentAgainstRequirements(payload, requirements, dateNow) ==
  LET auth == AuthOf(payload)
      paymentAmount == BigInt(Get(auth, "value").v)
      requiredAmount == BigInt(Get(requirements, "maxAmountRequired").v)
      now == dateNow \div MsPerSecond
  IN IF Get(payload, "network") # Get(requirements, "network")
       THEN Ok([k |-> "Network mismatch",
                expected |-> Get(requirements, "network"),
                got |-> Get(payload, "network")])
     ELSE IF toLowerCase(Get(auth, "to").v)
               # toLowerCase(Get(requirements, "payTo").v)
       THEN Ok([k |-> "Recipient mismatch",
                expected |-> Get(requirements, "payTo"),
                got |-> Get(auth, "to")])
     ELSE IF ~paymentAmount.ok THEN paymentAmount
     ELSE IF ~requiredAmount.ok THEN requiredAmount
     ELSE IF BigLess(paymentAmount.val, requiredAmount.val)
       THEN Ok([k |-> "Insufficient amount",
                expected |-> Get(requirements, "maxAmountRequired"),
                got |-> Get(auth, "value")])
     ELSE IF Get(auth, "validAfter").v > now
       THEN Ok([k |-> "Payment not yet valid",
                got |-> Get(auth, "validAfter")])
     ELSE IF Get(auth, "validBefore").v < now
       THEN Ok([k |-> "Payment expired",
                got |-> Get(auth, "validBefore")])
     ELSE Ok(JNull)

\* ------------------------------------------------------------------------
\* FacilitatorClient
\* ------------------------------------------------------------------------

\* An exchange is what happens to the one HTTP request of a call: the timer
\* aborts it ("abort"), the transport fails ("neterr"), or a response
\* arrives with a status and a body text.

HttpOk(status) == status >= 200 /\ status <= 299

\* FacilitatorClient.request: the parsed body of a 2xx response, else a
\* FacilitatorError
request(exchange) ==
  IF exchange.k = "abort"
    THEN Throw("FacilitatorError", "Request timeout")
  ELSE IF exchange.k = "neterr"
    THEN Throw("FacilitatorError", "Network error")
  ELSE IF ~HttpOk(exchange.status)
    THEN Throw("FacilitatorError", "Facilitator request failed")
  ELSE IF ~JSONParse(exchange.body).ok
    THEN Throw("FacilitatorError", "Network error")
  ELSE JSONParse(exchange.body)

\* FacilitatorClient.settle posts the payload and the requirements to
\* /settle and returns what request returns
settle(paymentPayload, paymentRequirements, exchange) == request(exchange)

\* ------------------------------------------------------------------------
\* x402(config): construction
\* ------------------------------------------------------------------------

\* the closure of the request handler, or the error thrown by x402
x402(cfg) ==
  LET net == Coalesce(cfg.network, JStr(DEFAULT_NETWORK))
  IN IF ~validateConfig(cfg).ok THEN validateConfig(cfg)
     ELSE IF net.v \notin DOMAIN USDC_ADDRESSES
       THEN Throw("Error", "Unsupported network")
     ELSE Ok([network |-> net,
              asset |-> JStr(USDC_ADDRESSES[net.v]),
              routeMatchers |-> createRouteMatchers(cfg)])

\* ------------------------------------------------------------------------
\* Inputs: configurations, requests, payloads, facilitator exchanges
\* ------------------------------------------------------------------------

RECIPIENT == <<"0", "x">> \o Rep("a", AddressHexLen)

RECIPIENT_UPPER == <<"0", "x">> \o Rep("A", AddressHexLen)

OTHER_ADDRESS == <<"0", "x">> \o Rep("b", AddressHexLen)

PAYER == <<"0", "x">> \o Rep("1", AddressHexLen)

SIGNATURE == <<"0", "x">> \o Rep("c", SignatureHexLen)

NONCE == <<"0", "x">> \o Rep("2", NonceHexLen)

TX_HASH == <<"0", "x">> \o Rep("d", NonceHexLen)

PRICE_CENT == <<"0", ".", "0", "1">>

PRICE_FIVE_CENTS == <<"0", ".", "0", "5">>

PATH_P == <<"/", "p">>

PATH_P_X == <<"/", "p", "/", "x">>

PATH_Q == <<"/", "q">>

PATTERN_P_ALL == <<"/", "p", "/", "*">>

HEAD == <<"H", "E", "A", "D">>

POST_LOWER == <<"p", "o", "s", "t">>

Route(path, price, methods) ==
  [path |-> JStr(path), price |-> JStr(price), description |-> JUndef,
   methods |-> methods]

\* the pricing part of the configurations: one blanket price, a route list,
\* a blanket price that is not a finite number
Pricings ==
  {[price |-> JStr(PRICE_CENT), routes |-> JUndef],
   [price |-> JUndef,
    routes |-> JArr(<<Route(PATH_P, PRICE_FIVE_CENTS, JArr(<<POST_LOWER>>)),
                      Route(PATTERN_P_ALL, PRICE_CENT, JUndef)>>)],
   [price |-> JStr(INFINITY), routes |-> JUndef]}

Configs ==
  {[recipient |-> JStr(RECIPIENT),
    price |-> p.price,
    routes |-> p.routes,
    description |-> JUndef,
    network |-> JUndef,
    onPayment |-> op,
    onError |-> oe] : p \in Pricings, op \in BOOLEAN, oe \in BOOLEAN}

Paths == {PATH_P, PATH_P_X, PATH_Q}

Methods == {GET, POST, HEAD}

\* values of Date.now(), in milliseconds
ClockReadings == {sec * MsPerSecond + 7 : sec \in 0..MaxNow}

Authorization(to, value, validAfter, validBefore) ==
  JObj([from |-> JStr(PAYER), to |-> JStr(to), value |-> JStr(value),
        validAfter |-> JNum(validAfter), validBefore |-> JNum(validBefore),
        nonce |-> JStr(NONCE)])

Payload(net, sig, auth) ==
  JObj([x402Version |-> JStr(VERSION_2), scheme |-> JStr(EXACT),
        network |-> JStr(net),
        payload |-> JObj([signature |-> JStr(sig), authorization |-> auth])])

TEN_THOUSAND == <<"1", "0", "0", "0", "0">>

BELOW_TEN_THOUSAND == <<"9", "9", "9", "9">>

SIXTY_THOUSAND == <<"6", "0", "0", "0", "0">>

\* ten thousand written with leading zeros
PADDED_TEN_THOUSAND == <<"0", "0">> \o TEN_THOUSAND

\* a value above 2^64
HUGE_VALUE == Rep("9", MaxPlainDigits)

NET_BASE_UPPER == toUpperCase(NET_BASE)

\* payloads that pass the schema validation of the codec
GoodPayloads ==
  {Payload(NET_BASE, SIGNATURE, Authorization(RECIPIENT, TEN_THOUSAND, 0, MaxNow + 1)),
   Payload(NET_BASE, SIGNATURE, Authorization(RECIPIENT_UPPER, SIXTY_THOUSAND, 0, MaxNow + 1)),
   Payload(NET_POLYGON, SIGNATURE, Authorization(RECIPIENT, TEN_THOUSAND, 0, MaxNow + 1)),
   Payload(NET_POLYGON, SIGNATURE, Authorization(RECIPIENT, BELOW_TEN_THOUSAND, 0, MaxNow + 1)),
   Payload(NET_BASE, SIGNATURE, Authorization(OTHER_ADDRESS, TEN_THOUSAND, 0, MaxNow + 1)),
   Payload(NET_BASE, SIGNATURE, Authorization(RECIPIENT, BELOW_TEN_THOUSAND, 0, MaxNow + 1)),
   Payload(NET_BASE, SIGNATURE, Authorization(RECIPIENT, TEN_THOUSAND, 1, MaxNow + 1)),
   Payload(NET_BASE, SIGNATURE, Authorization(RECIPIENT, TEN_THOUSAND, 0, 0)),
   Payload(NET_BASE, SIGNATURE, Authorization(RECIPIENT, TEN_THOUSAND, MaxNow, 0)),
   Payload(NET_BASE_UPPER, SIGNATURE, Authorization(RECIPIENT, TEN_THOUSAND, 0, MaxNow + 1)),
   Payload(NET_BASE, SIGNATURE, Authorization(RECIPIENT, PADDED_TEN_THOUSAND, 0, MaxNow + 1)),
   Payload(NET_BASE, SIGNATURE, Authorization(RECIPIENT, HUGE_VALUE, 0, MaxNow + 1))}

\* JSON values that fail it
BadPayloads ==
  {JNull,
   JObj([x402Version |-> JStr(VERSION_2)]),
   Payload(NET_BASE, <<"0", "x">> \o Rep("c", SignatureHexLen - 1),
           Authorization(RECIPIENT, TEN_THOUSAND, 0, MaxNow + 1))}

\* values of the x-payment request header: none, the empty string, text that
\* is not Base64 of JSON, and encodings of the values above
PaymentHeaders ==
  {JUndef, JStr(<<>>), JWire(BadText, TRUE), JWire(BadText, FALSE)}
    \cup {encodePaymentPayload(x) : x \in GoodPayloads \cup BadPayloads}

Settlement(success, more) ==
  JObj([success |-> JBool(success), network |-> JStr(NET_BASE),
        payer |-> JStr(PAYER)] @@ more)

FAIL_REASON == <<"n", "o">>

\* bodies of a 2xx answer of the facilitator
SettlementResults ==
  {Settlement(TRUE, [transaction |-> JStr(TX_HASH), timestamp |-> JNum(t)]) :
     t \in ClockReadings}
    \cup {Settlement(TRUE, <<>>),
          Settlement(FALSE, [errorReason |-> JStr(FAIL_REASON)]),
          Settlement(FALSE, <<>>)}

Exchanges ==
  {[k |-> "abort"], [k |-> "neterr"]}
    \cup {[k |-> "response", status |-> 200, body |-> JSONStringify(x)] :
            x \in SettlementResults}
    \cup {[k |-> "response", status |-> 200, body |-> BadText],
          [k |-> "response", status |-> 400,
           body |-> JSONStringify(Settlement(FALSE, [errorReason |-> JStr(FAIL_REASON)]))],
          [k |-> "response", status |-> 500, body |-> BadText]}

\* Inputs of the route resolution: rule lists, paths and methods

PATH_P_SLASH == <<"/", "p", "/">>

PATH_P_X_Y == <<"/", "p", "/", "x", "/", "y">>

PATH_U == <<"/", "u">>

PATH_U_SLASH == <<"/", "u", "/">>

PATH_U_7 == <<"/", "u", "/", "7">>

PATH_U_7_Z == <<"/", "u", "/", "7", "/", "z">>

PATTERN_U_ID == <<"/", "u", "/", ":", "i", "d">>

OPTIONS == <<"O", "P", "T", "I", "O", "N", "S">>

\* one rule with a methods list; a wildcard rule declared before a literal
\* rule that it covers, and a rule with a parameter; the literal rule
\* declared before the wildcard rule; one blanket price
RoutePricings ==
  {[price |-> JUndef,
    routes |-> JArr(<<Route(PATH_P, PRICE_FIVE_CENTS, JArr(<<POST_LOWER, PUT>>))>>)],
   [price |-> JUndef,
    routes |-> JArr(<<Route(PATTERN_P_ALL, PRICE_CENT, JUndef),
                      Route(PATH_P_X, PRICE_FIVE_CENTS, JUndef),
                      Route(PATTERN_U_ID, PRICE_FIVE_CENTS, JUndef)>>)],
   [price |-> JUndef,
    routes |-> JArr(<<Route(PATH_P_X, PRICE_FIVE_CENTS, JUndef),
                      Route(PATTERN_P_ALL, PRICE_CENT, JUndef)>>)],
   [price |-> JStr(PRICE_CENT), routes |-> JUndef]}

RouteConfigs ==
  {[recipient |-> JStr(RECIPIENT),
    price |-> p.price,
    routes |-> p.routes,
    description |-> JUndef,
    network |-> JUndef,
    onPayment |-> op,
    onError |-> FALSE] : p \in RoutePricings, op \in BOOLEAN}

RoutePaths ==
  {PATH_P, PATH_P_SLASH, PATH_P_X, PATH_P_X_Y, PATH_Q,
   PATH_U, PATH_U_SLASH, PATH_U_7, PATH_U_7_Z}

RouteMethods == {GET, POST, HEAD, OPTIONS}

ZERO_VALUE == <<"0">>

\* no payment, a payment of ten thousand base units, or a payment of none
RouteHeaders ==
  {JUndef,
   encodePaymentPayload(
     Payload(NET_BASE, SIGNATURE,
             Authorization(RECIPIENT, TEN_THOUSAND, 0, MaxNow + 1))),
   encodePaymentPayload(
     Payload(NET_BASE, SIGNATURE,
             Authorization(RECIPIENT, ZERO_VALUE, 0, MaxNow + 1)))}

\* what a callback does with one invocation: it completes, it throws or
\* rejects, or its promise never settles
CallbackBehaviours == {"returns", "throws", "never"}

\* ------------------------------------------------------------------------
\* State
\* ------------------------------------------------------------------------

\* config, network, asset and routeMatchers are the closure of the handler
\* that x402(config) returned.  rq maps each request in flight to the state
\* of its handler invocation:
\*   pc        "idle", "awaitSettle", "awaitOnError", "awaitOnPayment", "done"
\*   path, method, header      the request
\*   next      what the next function passed with the request does when it
\*             is called: "returns" or "throws"
\*   routeConfig, paymentPayload, requirements, dateNow   locals of the handler
\*   status, headers, body     the response as the handler has set it
\*   paymentReceipt            req.paymentReceipt
\*   settlement                what the awaited settle call produced
\*   trace     the calls made so far, in order
\*   settles, errors, receipts arguments of the calls of settle, onError
\*                             and onPayment
\*   cb        behaviour of the callback invocation being awaited
\*   after     the response written once handleError has returned
\* call is the last call of an exported function made from outside a
\* request: its name, its argument and what it returned or threw.
VARIABLES config, network, asset, routeMatchers, rq, call

vars == <<config, network, asset, routeMatchers, rq, call>>

\* no exported function has been called
NoCall == [fn |-> "none"]

IdleRequest ==
  [pc |-> "idle", path |-> <<>>, method |-> <<>>, header |-> JUndef,
   routeConfig |-> JNull, paymentPayload |-> JUndef, requirements |-> JUndef,
   settlement |-> JUndef, dateNow |-> 0, status |-> 0, headers |-> <<>>, body |-> JUndef,
   paymentReceipt |-> JUndef, trace |-> <<>>, settles |-> <<>>,
   errors |-> <<>>, receipts |-> <<>>, cb |-> "", after |-> JUndef,
   next |-> "returns"]

Requests == {"r1"}

Init ==
  \E cfg \in Configs :
    /\ x402(cfg).ok
    /\ config = cfg
    /\ network = x402(cfg).val.network
    /\ asset = x402(cfg).val.asset
    /\ routeMatchers = x402(cfg).val.routeMatchers
    /\ rq = [r \in Requests |-> IdleRequest]
    /\ call = NoCall

\* ------------------------------------------------------------------------
\* The response object and the calls of the handler
\* ------------------------------------------------------------------------

ResStatus(q, code) ==
  [q EXCEPT !.status = code, !.trace = Append(@, "status")]

ResSetHeader(q, name, value) ==
  [q EXCEPT !.headers = (name :> value) @@ @, !.trace = Append(@, "setHeader")]

ResJson(q, body) ==
  [q EXCEPT !.body = body, !.trace = Append(@, "json")]

\* await handleError(error, config) followed by res.status and res.json:
\* the handler is suspended with the response it writes on resumption
handleError(q, error, behaviour, code, body) ==
  IF config.onError
    THEN [q EXCEPT !.errors = Append(@, error),
                   !.trace = Append(@, "onError"),
                   !.pc = "awaitOnError",
                   !.cb = behaviour,
                   !.after = [status |-> code, body |-> body]]
    ELSE [q EXCEPT !.pc = "awaitOnError",
                   !.cb = "absent",
                   !.after = [status |-> code, body |-> body]]

\* a catch clause that answers 402
Unexpected_As402(q, err, behaviour) ==
  handleError(q,
              [code |-> "NETWORK_ERROR",
               message |-> [k |-> "error", text |-> err.message],
               cause |-> err],
              behaviour, 402,
              [error |-> "Internal Error",
               message |-> [k |-> "An error occurred while processing the payment"]])

\* a catch clause that reports the fault as an invalid payload
Unexpected_InvalidPayload(q, err, behaviour) ==
  handleError(q,
              [code |-> "INVALID_PAYLOAD",
               message |-> [k |-> "error", text |-> err.message],
               cause |-> err],
              behaviour, 500,
              [error |-> "Internal Error",
               message |-> [k |-> "An error occurred while processing the payment"]])

\* the catch clause around the whole handler
Unexpected(q, err, behaviour) ==
  handleError(q,
              [code |-> "NETWORK_ERROR",
               message |-> [k |-> "error", text |-> err.message],
               cause |-> err],
              behaviour, 500,
              [error |-> "Internal Error",
               message |-> [k |-> "An error occurred while processing the payment"]])

\* a continuation that also sets a status
CallNext_WithStatus(q, behaviour) ==
  [q EXCEPT !.trace = Append(@, "next"), !.pc = "done", !.status = 200]

\* next() inside the try block of the handler.  The next function of a
\* router catches what the handlers behind it throw, and the call returns;
\* a next function that throws takes the handler to its catch clause.
CallNext(q, behaviour) ==
  IF q.next = "throws"
    THEN Unexpected([q EXCEPT !.trace = Append(@, "next")],
                    [name |-> "Error", message |-> "next"], behaviour)
    ELSE [q EXCEPT !.trace = Append(@, "next"), !.pc = "done"]

\* FacilitatorClient.request sends its one HTTP request and awaits the answer
Fetch(q) == [q EXCEPT !.trace = Append(@, "fetch")]

\* the branch of a request without payment header
PaymentRequired(q, behaviour) ==
  LET amount == usdToBaseUnits(q.routeConfig.price.v)
      reqs == createPaymentRequirements(
                [network |-> network,
                 asset |-> asset,
                 amount |-> JStr(amount.val),
                 recipient |-> config.recipient,
                 description |-> Coalesce(q.routeConfig.description, config.description),
                 resource |-> JStr(q.path)])
      encoded == encodePaymentRequirements(JArr(<<reqs>>))
      q1 == ResStatus(q, 402)
      q2 == ResSetHeader(q1, HEADERS.PAYMENT_REQUIRED, encoded)
      q3 == ResSetHeader(q2, "content-type", "application/json")
      q4 == ResJson(q3, [error |-> "Payment Required",
                         message |-> [k |-> "This endpoint requires a payment of",
                                      price |-> q.routeConfig.price],
                         requirements |-> JArr(<<reqs>>)])
  IN IF ~amount.ok THEN Unexpected(q, amount.err, behaviour)
     ELSE [q4 EXCEPT !.pc = "done"]

\* the branch of a request with a payment header, up to its first await
PaymentPresented(q, dateNow, behaviour) ==
  LET decoded == decodePaymentPayload(q.header)
      amount == usdToBaseUnits(q.routeConfig.price.v)
      reqs == JObj([scheme |-> JStr(EXACT),
                    network |-> network,
                    asset |-> asset,
                    maxAmountRequired |-> JStr(amount.val),
                    payTo |-> config.recipient,
                    resource |-> JStr(q.path)])
      q0 == [q EXCEPT !.trace = Append(@, "decode")]
      q1 == [q0 EXCEPT !.paymentPayload = decoded.val,
                       !.requirements = reqs,
                       !.dateNow = dateNow]
      validationError ==
        validatePaymentAgainstRequirements(decoded.val, reqs, dateNow)
  IN IF ~decoded.ok
       THEN handleError(q0,
                        [code |-> "INVALID_PAYLOAD",
                         message |-> [k |-> "Invalid payment payload format"],
                         cause |-> decoded.err],
                        behaviour, 402,
                        [error |-> "Invalid Payment",
                         message |-> [k |-> "Invalid payment payload format"]])
     ELSE IF ~amount.ok
       THEN Unexpected([q0 EXCEPT !.paymentPayload = decoded.val],
                       amount.err, behaviour)
     ELSE IF ~validationError.ok
       THEN Unexpected(q1, validationError.err, behaviour)
     ELSE IF validationError.val # JNull
       THEN handleError(q1,
                        [code |-> "INVALID_PAYLOAD",
                         message |-> validationError.val,
                         cause |-> JUndef],
                        behaviour, 402,
                        [error |-> "Invalid Payment",
                         message |-> validationError.val])
     ELSE Fetch([q1 EXCEPT !.settles = Append(@, [paymentPayload |-> decoded.val,
                                                  paymentRequirements |-> reqs]),
                           !.trace = Append(@, "settle"),
                           !.pc = "awaitSettle"])

\* the handler from its entry to its first await or its return
Handle(q, dateNow, behaviour) ==
  LET routeConfig == findMatchingRoute(q.path, q.method, routeMatchers, config)
      q1 == [q EXCEPT !.routeConfig = routeConfig]
  IN IF routeConfig = JNull THEN CallNext(q1, behaviour)
     ELSE IF ~Truthy(q.header) THEN PaymentRequired(q1, behaviour)
     ELSE PaymentPresented(q1, dateNow, behaviour)

\* a test of settlement.success that lets every result through
SettlementSucceeded_Always(settlement) == TRUE

\* a test that takes every result with a success field as a success
SettlementSucceeded_Defined(settlement) == Get(settlement, "success") # JUndef

\* the test of settlement.success
SettlementSucceeded(settlement) == Truthy(Get(settlement, "success"))

\* a receipt that leaves the transaction of the settlement out
PaymentReceiptOf_NoHash(settlement, routeConfig, path, dateNow) ==
  [payer |-> Get(settlement, "payer"),
   amount |-> routeConfig.price,
   transactionHash |-> JStr(<<>>),
   network |-> network,
   timestamp |-> Coalesce(Get(settlement, "timestamp"), JNum(dateNow)),
   resource |-> JStr(path)]

\* a receipt whose amount is the required amount in base units
PaymentReceiptOf_BaseUnits(settlement, routeConfig, path, dateNow) ==
  [payer |-> Get(settlement, "payer"),
   amount |-> JStr(usdToBaseUnits(routeConfig.price.v).val),
   transactionHash |-> Coalesce(Get(settlement, "transaction"), JStr(<<>>)),
   network |-> network,
   timestamp |-> Coalesce(Get(settlement, "timestamp"), JNum(dateNow)),
   resource |-> JStr(path)]

\* the receipt built from a successful settlement
PaymentReceiptOf(settlement, routeConfig, path, dateNow) ==
  [payer |-> Get(settlement, "payer"),
   amount |-> routeConfig.price,
   transactionHash |-> Coalesce(Get(settlement, "transaction"), JStr(<<>>)),
   network |-> network,
   timestamp |-> Coalesce(Get(settlement, "timestamp"), JNum(dateNow)),
   resource |-> JStr(path)]

\* the handler after the settlement promise has settled with result
Settled(q0, result, dateNow, behaviour) ==
  LET q == [q0 EXCEPT !.settlement = result]
      settlement == result.val
      reason == Get(settlement, "errorReason")
      receipt == PaymentReceiptOf(settlement, q.routeConfig, q.path, dateNow)
      q1 == ResSetHeader(q, HEADERS.PAYMENT_RESPONSE,
                         encodeSettlementResponse(settlement))
      q2 == [q1 EXCEPT !.paymentReceipt = receipt,
                       !.trace = Append(@, "attachReceipt")]
  IN IF ~result.ok THEN Unexpected(q, result.err, behaviour)
     ELSE IF ~SettlementSucceeded(settlement)
       THEN handleError(q,
                        [code |-> "SETTLEMENT_FAILED",
                         message |-> IF reason.t \in {"undefined", "null"}
                                       THEN [k |-> "Payment settlement failed"]
                                       ELSE [k |-> "reason", text |-> reason.v],
                         cause |-> JUndef],
                        behaviour, 402,
                        [error |-> "Settlement Failed",
                         message |-> IF reason.t \in {"undefined", "null"}
                                       THEN [k |-> "Payment could not be settled on-chain"]
                                       ELSE [k |-> "reason", text |-> reason.v]])
     ELSE IF config.onPayment
       THEN [q2 EXCEPT !.receipts = Append(@, receipt),
                       !.trace = Append(@, "onPayment"),
                       !.pc = "awaitOnPayment",
                       !.cb = behaviour]
     ELSE CallNext(q2, behaviour)

\* ------------------------------------------------------------------------
\* Actions
\* ------------------------------------------------------------------------

\* a request arrives and the handler runs to its first await or its return
Receive(r) ==
  /\ rq[r].pc = "idle"
  /\ \E path \in Paths, method \in Methods, header \in PaymentHeaders,
        dateNow \in ClockReadings, behaviour \in CallbackBehaviours :
       rq' = [rq EXCEPT ![r] =
                Handle([@ EXCEPT !.path = path, !.method = method,
                                 !.header = header],
                       dateNow, behaviour)]
  /\ UNCHANGED <<config, network, asset, routeMatchers, call>>

\* a client that sends the request again when the call was rejected
SettleReturns_Retrying(r) ==
  /\ rq[r].pc = "awaitSettle"
  /\ \E exchange \in Exchanges, dateNow \in ClockReadings,
        behaviour \in CallbackBehaviours :
       rq' = [rq EXCEPT ![r] =
                IF /\ ~settle(@.paymentPayload, @.requirements, exchange).ok
                   /\ @.trace[Len(@.trace) - 1] = "settle"
                  THEN Fetch(@)
                  ELSE Settled(@, settle(@.paymentPayload, @.requirements, exchange),
                               dateNow, behaviour)]
  /\ UNCHANGED <<config, network, asset, routeMatchers, call>>

\* the promise of facilitator.settle settles and the handler runs on
SettleReturns(r) ==
  /\ rq[r].pc = "awaitSettle"
  /\ \E exchange \in Exchanges, dateNow \in ClockReadings,
        behaviour \in CallbackBehaviours :
       rq' = [rq EXCEPT ![r] =
                Settled(@, settle(@.paymentPayload, @.requirements, exchange),
                        dateNow, behaviour)]
  /\ UNCHANGED <<config, network, asset, routeMatchers, call>>

\* a handleError without its try block: what onError throws reaches the
\* catch clause of the handler
ErrorHandled_Escalates(r) ==
  /\ rq[r].pc = "awaitOnError"
  /\ rq[r].cb \in {"absent", "returns", "throws"}
  /\ rq' = [rq EXCEPT ![r] =
              [ResJson(ResStatus(@, IF @.cb = "throws" THEN 500 ELSE @.after.status),
                       @.after.body)
                 EXCEPT !.pc = "done"]]
  /\ UNCHANGED <<config, network, asset, routeMatchers, call>>

\* handleError returns: onError is not configured, or it completed, or it
\* threw and the error was logged; the handler writes the response
ErrorHandled(r) ==
  /\ rq[r].pc = "awaitOnError"
  /\ rq[r].cb \in {"absent", "returns", "throws"}
  /\ rq' = [rq EXCEPT ![r] =
              [ResJson(ResStatus(@, @.after.status), @.after.body)
                 EXCEPT !.pc = "done"]]
  /\ UNCHANGED <<config, network, asset, routeMatchers, call>>

\* onPayment completed, or threw and the error was logged; the handler
\* continues to the route
PaymentHandled(r) ==
  /\ rq[r].pc = "awaitOnPayment"
  /\ rq[r].cb \in {"returns", "throws"}
  /\ \E behaviour \in CallbackBehaviours :
       rq' = [rq EXCEPT ![r] = CallNext(@, behaviour)]
  /\ UNCHANGED <<config, network, asset, routeMatchers, call>>

Next ==
  \E r \in DOMAIN rq :
    \/ Receive(r)
    \/ SettleReturns(r)
    \/ ErrorHandled(r)
    \/ PaymentHandled(r)

Spec == Init /\ [][Next]_vars

\* ------------------------------------------------------------------------
\* Two invocations on the same input
\* ------------------------------------------------------------------------

\* Two handler invocations receive the same request, the same clock readings
\* and the same answer of the facilitator; only what the callbacks do with
\* each invocation is chosen separately.

PairRequests == {"r1", "r2"}

InitPair ==
  \E cfg \in Configs :
    /\ x402(cfg).ok
    /\ config = cfg
    /\ network = x402(cfg).val.network
    /\ asset = x402(cfg).val.asset
    /\ routeMatchers = x402(cfg).val.routeMatchers
    /\ rq = [r \in PairRequests |-> IdleRequest]
    /\ call = NoCall

ReceivePair ==
  /\ \A r \in DOMAIN rq : rq[r].pc = "idle"
  /\ \E path \in Paths, method \in Methods, header \in PaymentHeaders,
        dateNow \in ClockReadings,
        behaviour \in [DOMAIN rq -> CallbackBehaviours] :
       rq' = [r \in DOMAIN rq |->
                Handle([rq[r] EXCEPT !.path = path, !.method = method,
                                     !.header = header],
                       dateNow, behaviour[r])]
  /\ UNCHANGED <<config, network, asset, routeMatchers, call>>

SettleReturnsPair ==
  /\ \A r \in DOMAIN rq : rq[r].pc = "awaitSettle"
  /\ \E exchange \in Exchanges, dateNow \in ClockReadings,
        behaviour \in [DOMAIN rq -> CallbackBehaviours] :
       rq' = [r \in DOMAIN rq |->
                Settled(rq[r],
                        settle(rq[r].paymentPayload, rq[r].requirements, exchange),
                        dateNow, behaviour[r])]
  /\ UNCHANGED <<config, network, asset, routeMatchers, call>>

NextPair ==
  \/ ReceivePair
  \/ SettleReturnsPair
  \/ \E r \in DOMAIN rq : ErrorHandled(r)
  \/ \E r \in DOMAIN rq : PaymentHandled(r)

SpecPair == InitPair /\ [][NextPair]_vars

\* ------------------------------------------------------------------------
\* Route resolution
\* ------------------------------------------------------------------------

\* The handler under configurations, paths and methods that exercise the
\* route resolution.

InitRoutes ==
  \E cfg \in RouteConfigs :
    /\ x402(cfg).ok
    /\ config = cfg
    /\ network = x402(cfg).val.network
    /\ asset = x402(cfg).val.asset
    /\ routeMatchers = x402(cfg).val.routeMatchers
    /\ rq = [r \in Requests |-> IdleRequest]
    /\ call = NoCall

ReceiveRouted(r) ==
  /\ rq[r].pc = "idle"
  /\ \E path \in RoutePaths, method \in RouteMethods, header \in RouteHeaders,
        dateNow \in ClockReadings, behaviour \in CallbackBehaviours :
       rq' = [rq EXCEPT ![r] =
                Handle([@ EXCEPT !.path = path, !.method = method,
                                 !.header = header],
                       dateNow, behaviour)]
  /\ UNCHANGED <<config, network, asset, routeMatchers, call>>

NextRoutes ==
  \E r \in DOMAIN rq :
    \/ ReceiveRouted(r)
    \/ SettleReturns(r)
    \/ ErrorHandled(r)
    \/ PaymentHandled(r)

SpecRoutes == InitRoutes /\ [][NextRoutes]_vars

\* ------------------------------------------------------------------------
\* A next function that may throw
\* ------------------------------------------------------------------------

\* The handler is called with a next function that is not the one of a
\* router: a continuation that runs the protected resource and lets its
\* exception through.

NextBehaviours == {"returns", "throws"}

ReceiveDirect(r) ==
  /\ rq[r].pc = "idle"
  /\ \E path \in Paths, method \in Methods, header \in RouteHeaders,
        dateNow \in ClockReadings, behaviour \in CallbackBehaviours,
        nextBehaviour \in NextBehaviours :
       rq' = [rq EXCEPT ![r] =
                Handle([@ EXCEPT !.path = path, !.method = method,
                                 !.header = header, !.next = nextBehaviour],
                       dateNow, behaviour)]
  /\ UNCHANGED <<config, network, asset, routeMatchers, call>>

NextDirect ==
  \E r \in DOMAIN rq :
    \/ ReceiveDirect(r)
    \/ SettleReturns(r)
    \/ ErrorHandled(r)
    \/ PaymentHandled(r)

SpecDirect == Init /\ [][NextDirect]_vars

\* ------------------------------------------------------------------------
\* Requests in flight together
\* ------------------------------------------------------------------------

\* Two requests go through the handler of one x402(config) call.  Each
\* invocation runs from one await to the next without interruption; between
\* two awaits of one invocation the other may run any of its steps.

ConcurrentRequests == {"r1", "r2"}

ConcurrentPaths == {PATH_P_X, PATH_Q}

\* no payment, a payment that passes every check, one for another recipient
\* and one below the price
ConcurrentHeaders ==
  {JUndef,
   encodePaymentPayload(
     Payload(NET_BASE, SIGNATURE,
             Authorization(RECIPIENT, TEN_THOUSAND, 0, MaxNow + 1))),
   encodePaymentPayload(
     Payload(NET_BASE, SIGNATURE,
             Authorization(OTHER_ADDRESS, TEN_THOUSAND, 0, MaxNow + 1))),
   JWire(BadText, FALSE)}

\* the facilitator does not answer in time, settles, or refuses
ConcurrentExchanges ==
  {[k |-> "abort"],
   [k |-> "response", status |-> 200,
    body |-> JSONStringify(Settlement(TRUE, [transaction |-> JStr(TX_HASH)]))],
   [k |-> "response", status |-> 200,
    body |-> JSONStringify(Settlement(FALSE, [errorReason |-> JStr(FAIL_REASON)]))]}

\* two readings of Date.now(), one second apart
ConcurrentClock == {sec * MsPerSecond + 7 : sec \in 0..1}

ConcurrentBehaviours == {"returns", "throws"}

InitConcurrent ==
  \E cfg \in Configs :
    /\ x402(cfg).ok
    /\ cfg.routes # JUndef
    /\ cfg.onPayment
    /\ cfg.onError
    /\ config = cfg
    /\ network = x402(cfg).val.network
    /\ asset = x402(cfg).val.asset
    /\ routeMatchers = x402(cfg).val.routeMatchers
    /\ rq = [r \in ConcurrentRequests |-> IdleRequest]
    /\ call = NoCall

\* a handler that remembers the payment headers it has let through and
\* answers a second presentation of one as an unpaid request
ReceiveConcurrent_Deduplicating(r) ==
  /\ rq[r].pc = "idle"
  /\ \E path \in ConcurrentPaths, header \in ConcurrentHeaders,
        dateNow \in ConcurrentClock, behaviour \in ConcurrentBehaviours :
       rq' = [rq EXCEPT ![r] =
                [Handle([@ EXCEPT !.path = path, !.method = GET,
                                  !.header =
                                    IF \E s \in DOMAIN rq :
                                         rq[s].settles # <<>> /\ rq[s].header = header
                                      THEN JUndef
                                      ELSE header],
                        dateNow, behaviour)
                   EXCEPT !.header = header]]
  /\ UNCHANGED <<config, network, asset, routeMatchers, call>>

ReceiveConcurrent(r) ==
  /\ rq[r].pc = "idle"
  /\ \E path \in ConcurrentPaths, header \in ConcurrentHeaders,
        dateNow \in ConcurrentClock, behaviour \in ConcurrentBehaviours :
       rq' = [rq EXCEPT ![r] =
                Handle([@ EXCEPT !.path = path, !.method = GET,
                                 !.header = header],
                       dateNow, behaviour)]
  /\ UNCHANGED <<config, network, asset, routeMatchers, call>>

\* one settlement promise shared by the invocations that await it
SettleReturnsConcurrent_Shared(r) ==
  /\ rq[r].pc = "awaitSettle"
  /\ \E exchange \in ConcurrentExchanges, dateNow \in ConcurrentClock,
        behaviour \in ConcurrentBehaviours :
       rq' = [s \in DOMAIN rq |->
                IF rq[s].pc = "awaitSettle"
                  THEN Settled(rq[s],
                               settle(rq[s].paymentPayload, rq[s].requirements,
                                      exchange),
                               dateNow, behaviour)
                  ELSE rq[s]]
  /\ UNCHANGED <<config, network, asset, routeMatchers, call>>

\* the settlement promise of one invocation settles
SettleReturnsConcurrent(r) ==
  /\ rq[r].pc = "awaitSettle"
  /\ \E exchange \in ConcurrentExchanges, dateNow \in ConcurrentClock,
        behaviour \in ConcurrentBehaviours :
       rq' = [rq EXCEPT ![r] =
                Settled(@, settle(@.paymentPayload, @.requirements, exchange),
                        dateNow, behaviour)]
  /\ UNCHANGED <<config, network, asset, routeMatchers, call>>

NextConcurrent ==
  \E r \in DOMAIN rq :
    \/ ReceiveConcurrent(r)
    \/ SettleReturnsConcurrent(r)
    \/ ErrorHandled(r)
    \/ PaymentHandled(r)

SpecConcurrent == InitConcurrent /\ [][NextConcurrent]_vars

\* ------------------------------------------------------------------------
\* Construction
\* ------------------------------------------------------------------------

\* x402(config) is called once with a configuration that validateConfig
\* accepts or rejects; the handler it returns then serves requests.

SHORT_ADDRESS == <<"0", "x">> \o Rep("a", AddressHexLen - 1)

NOT_AN_ADDRESS == <<"n", "o", "t">>

PRICE_ZERO == <<"0">>

PRICE_MINUS_ONE == <<"-", "1">>

PRICE_ABC == <<"a", "b", "c">>

\* a price followed by a currency name
PRICE_CENT_USD == PRICE_CENT \o <<"u", "s", "d">>

\* 0.0000001 USD
PRICE_TENTH_MICRO == <<"0", ".">> \o Rep("0", USDC_DECIMALS) \o <<"1">>

NET_UNSUPPORTED == <<"u", "n", "s", "u", "p", "p", "o", "r", "t", "e", "d", ":", "c", "h", "a", "i", "n">>

Cfg(recipient, price, routes, net) ==
  [recipient |-> recipient, price |-> price, routes |-> routes,
   description |-> JUndef, network |-> net,
   onPayment |-> TRUE, onError |-> TRUE]

\* arguments of x402: configurations with one blanket price, with a rule
\* list, on another network, configurations with one field missing or
\* malformed, one with a blanket price next to a rule list, and one whose
\* price is a tenth of a base unit
ConstructorInputs ==
  {Cfg(JStr(RECIPIENT), JStr(PRICE_CENT), JUndef, JUndef),
   Cfg(JStr(RECIPIENT), JStr(PRICE_CENT), JUndef, JStr(NET_POLYGON)),
   Cfg(JStr(RECIPIENT), JUndef,
       JArr(<<Route(PATH_P, PRICE_FIVE_CENTS, JUndef)>>), JUndef),
   Cfg(JStr(RECIPIENT), JStr(INFINITY), JUndef, JUndef),
   Cfg(JStr(RECIPIENT), JStr(PRICE_CENT_USD), JUndef, JUndef),
   Cfg(JUndef, JStr(PRICE_CENT), JUndef, JUndef),
   Cfg(JStr(<<>>), JStr(PRICE_CENT), JUndef, JUndef),
   Cfg(JStr(NOT_AN_ADDRESS), JStr(PRICE_CENT), JUndef, JUndef),
   Cfg(JStr(SHORT_ADDRESS), JStr(PRICE_CENT), JUndef, JUndef),
   Cfg(JStr(RECIPIENT), JUndef, JUndef, JUndef),
   Cfg(JStr(RECIPIENT), JUndef, JArr(<<>>), JUndef),
   Cfg(JStr(RECIPIENT), JStr(PRICE_ZERO), JUndef, JUndef),
   Cfg(JStr(RECIPIENT), JStr(PRICE_MINUS_ONE), JUndef, JUndef),
   Cfg(JStr(RECIPIENT), JStr(PRICE_ABC), JUndef, JUndef),
   Cfg(JStr(RECIPIENT), JStr(PRICE_MINUS_ONE),
       JArr(<<Route(PATH_P, PRICE_FIVE_CENTS, JUndef)>>), JUndef),
   Cfg(JStr(RECIPIENT), JUndef,
       JArr(<<Route(PATH_P, PRICE_FIVE_CENTS, JUndef),
              Route(PATH_Q, PRICE_MINUS_ONE, JUndef)>>), JUndef),
   Cfg(JStr(RECIPIENT), JUndef,
       JArr(<<Route(PATH_P, PRICE_ABC, JUndef)>>), JUndef),
   Cfg(JStr(RECIPIENT), JUndef,
       JArr(<<Route(<<>>, PRICE_FIVE_CENTS, JUndef)>>), JUndef),
   Cfg(JStr(RECIPIENT), JStr(PRICE_CENT), JUndef, JStr(NET_UNSUPPORTED)),
   Cfg(JStr(RECIPIENT), JStr(PRICE_CENT),
       JArr(<<Route(PATH_P, PRICE_FIVE_CENTS, JUndef)>>), JUndef),
   Cfg(JStr(RECIPIENT), JStr(PRICE_TENTH_MICRO), JUndef, JUndef)}

\* before x402 is called there is no handler and no request
InitConfig ==
  /\ config = JUndef
  /\ network = JUndef
  /\ asset = JUndef
  /\ routeMatchers = <<>>
  /\ rq = <<>>
  /\ call = NoCall

\* x402(cfg) throws, or returns the handler whose closure holds cfg
Construct(cfg) ==
  /\ call = NoCall
  /\ call' = [fn |-> "x402", arg |-> cfg, result |-> x402(cfg)]
  /\ IF x402(cfg).ok
       THEN /\ config' = cfg
            /\ network' = x402(cfg).val.network
            /\ asset' = x402(cfg).val.asset
            /\ routeMatchers' = x402(cfg).val.routeMatchers
            /\ rq' = [r \in Requests |-> IdleRequest]
       ELSE UNCHANGED <<config, network, asset, routeMatchers, rq>>

NextConfig ==
  \/ \E cfg \in ConstructorInputs : Construct(cfg)
  \/ \E r \in DOMAIN rq : ReceiveRouted(r)
  \/ \E r \in DOMAIN rq : SettleReturns(r)
  \/ \E r \in DOMAIN rq : ErrorHandled(r)
  \/ \E r \in DOMAIN rq : PaymentHandled(r)

SpecConfig == InitConfig /\ [][NextConfig]_vars

\* ------------------------------------------------------------------------
\* Calls of the codec
\* ------------------------------------------------------------------------

\* One of the decode functions or of the two price conversions is called
\* from outside a request, on a wire string or on a numeral.  The functions
\* keep no state, so a behaviour holds one call.

\* the number n + 1/2; it occurs in arguments of the decode functions only
JFraction(n) == [t |-> "number", v |-> n, half |-> TRUE]

VERSION_3 == <<"3", ".", "0">>

SCHEME_OTHER == <<"w", "r", "o", "n", "g">>

SHORT_SIGNATURE == <<"0", "x">> \o Rep("c", SignatureHexLen - 1)

SHORT_NONCE == <<"0", "x", "1", "2", "3">>

VALUE_DECIMAL == <<"1", ".", "5">>

PayloadOfFields(f) ==
  JObj([x402Version |-> f.x402Version, scheme |-> f.scheme,
        network |-> f.network,
        payload |->
          JObj([signature |-> f.signature,
                authorization |->
                  JObj([from |-> f.from, to |-> f.to, value |-> f.value,
                        validAfter |-> f.validAfter,
                        validBefore |-> f.validBefore,
                        nonce |-> f.nonce])])])

\* for each field of a payment payload a value the schema admits and values
\* it may not admit
PayloadFields ==
  [x402Version : {JStr(VERSION_2), JStr(VERSION_1), JStr(VERSION_3)},
   scheme : {JStr(EXACT), JStr(SCHEME_OTHER)},
   network : {JStr(NET_BASE), JStr(<<>>)},
   signature : {JStr(SIGNATURE), JStr(SHORT_SIGNATURE)},
   from : {JStr(PAYER), JStr(NOT_AN_ADDRESS)},
   to : {JStr(RECIPIENT), JUndef},
   value : {JStr(TEN_THOUSAND), JStr(VALUE_DECIMAL)},
   validAfter : {JNum(0), JFraction(0), JNum(-1)},
   validBefore : {JNum(MaxNow + 1), JFraction(MaxNow), JStr(<<"5">>)},
   nonce : {JStr(NONCE), JStr(SHORT_NONCE)}]

\* JSON values offered as payment payloads
PayloadValues ==
  {PayloadOfFields(f) : f \in PayloadFields}
    \cup GoodPayloads
    \cup {JNull, JArr(<<>>),
          JObj([x402Version |-> JStr(VERSION_2), scheme |-> JStr(EXACT),
                network |-> JStr(NET_BASE)]),
          JObj([x402Version |-> JStr(VERSION_2), scheme |-> JStr(EXACT),
                network |-> JStr(NET_BASE),
                payload |-> JObj([signature |-> JStr(SIGNATURE)])]),
          JObj([x402Version |-> JStr(VERSION_2), scheme |-> JStr(EXACT),
                network |-> JStr(NET_BASE),
                payload |-> JObj([signature |-> JStr(SHORT_SIGNATURE),
                                  authorization |-> JNull])])}

\* wire strings: Base64 of the JSON text of a value, Base64 of text that is
\* not JSON, and strings with characters outside the Base64 alphabet, which
\* Buffer.from skips, around JSON text or around other text
WiresOf(values) ==
  {Base64Encode(JSONStringify(x)) : x \in values}
    \cup {JWire(BadText, FALSE), JWire(BadText, TRUE)}

PayloadWires ==
  WiresOf(PayloadValues)
    \cup {JWire(JSONStringify(x), TRUE) : x \in GoodPayloads}

RequirementOfFields(f) ==
  JObj([scheme |-> f.scheme, network |-> f.network, asset |-> f.asset,
        maxAmountRequired |-> f.maxAmountRequired, payTo |-> f.payTo,
        description |-> f.description, resource |-> JStr(PATH_P)])

RequirementFields ==
  [scheme : {JStr(EXACT), JStr(SCHEME_OTHER)},
   network : {JStr(NET_BASE), JStr(<<>>)},
   asset : {JStr(USDC_ADDRESSES[NET_BASE]), JStr(NOT_AN_ADDRESS)},
   maxAmountRequired : {JStr(TEN_THOUSAND), JStr(VALUE_DECIMAL)},
   payTo : {JStr(RECIPIENT), JStr(SHORT_ADDRESS)},
   description : {JUndef}]

\* a requirement as the handler creates it, without and with a description
GoodRequirements ==
  {createPaymentRequirements(
     [network |-> JStr(NET_BASE), asset |-> JStr(USDC_ADDRESSES[NET_BASE]),
      amount |-> JStr(TEN_THOUSAND), recipient |-> JStr(RECIPIENT),
      description |-> d, resource |-> JStr(PATH_P)]) :
     d \in {JUndef, JStr(<<"T", "e", "s", "t">>)}}

RequirementElements ==
  {RequirementOfFields(f) : f \in RequirementFields} \cup GoodRequirements

\* JSON values offered as payment requirements: arrays of none, one and two
\* elements, and values that are not arrays
RequirementValues ==
  {JArr(<<>>)}
    \cup {JArr(<<e>>) : e \in RequirementElements \cup {JNull}}
    \cup {JArr(<<e1, e2>>) : e1, e2 \in RequirementElements}
    \cup {JNull, JNum(1), JObj([scheme |-> JStr(EXACT)])}
    \cup GoodRequirements

RequirementWires ==
  WiresOf(RequirementValues)
    \cup {JWire(JSONStringify(JArr(<<x>>)), TRUE) : x \in GoodRequirements}

\* JSON values offered as settlement responses: results of the facilitator
\* and values that lack or mistype a field of SettlementResponse
SettlementValues ==
  SettlementResults
    \cup {JNull, JArr(<<>>), JNum(1), JObj(<<>>),
          JObj([network |-> JStr(NET_BASE), payer |-> JStr(PAYER)]),
          JObj([success |-> JStr(<<"y", "e", "s">>),
                network |-> JStr(NET_BASE), payer |-> JStr(PAYER)]),
          JObj([success |-> JBool(TRUE), payer |-> JStr(PAYER)]),
          JObj([success |-> JBool(TRUE), network |-> JStr(NET_BASE)]),
          JObj([success |-> JBool(TRUE), network |-> JNum(1),
                payer |-> JStr(NOT_AN_ADDRESS)])}

SettlementWires ==
  WiresOf(SettlementValues)
    \cup {JWire(JSONStringify(x), TRUE) : x \in SettlementResults}

BaseUnitsMax == 120

ONE_AND_A_HALF_MILLION == <<"1", "5", "0", "0", "0", "0", "0">>

HUNDRED_MILLION == <<"1">> \o Rep("0", 8)

\* 10^21
SEXTILLION == <<"1">> \o Rep("0", MaxPlainDigits)

\* amounts in base units, as decimal numerals
BaseUnitTexts ==
  {NatToDigits(n) : n \in 0..BaseUnitsMax}
    \cup {NatToDigits(n * 10000) : n \in 1..BaseUnitsMax}
    \cup {TEN_THOUSAND, PADDED_TEN_THOUSAND, ONE_AND_A_HALF_MILLION,
          HUNDRED_MILLION, <<"1", "2", "3", "4", "5", "6", "7">>,
          <<"9", "9", "9", "9", "9", "9">>, SEXTILLION}

\* prices: numerals on and off the grid of six decimals, what baseUnitsToUsd
\* returns, and text that is not the numeral of a number that is not negative
PriceTexts ==
  {baseUnitsToUsd(n).val : n \in BaseUnitTexts}
    \cup {<<"1", ".", "0", "0">>, PRICE_CENT, PRICE_FIVE_CENTS, PRICE_ZERO,
          <<"0", ".", "0", "0", "0", "0", "0", "1">>,
          <<"0", ".", "0", "0", "0", "0", "0", "0", "4">>,
          <<"0", ".", "0", "0", "0", "0", "0", "0", "6">>,
          <<"1", "0", "0">>,
          PRICE_ABC, <<>>, PRICE_MINUS_ONE, <<"-", "0", ".", "0", "1">>,
          INFINITY, <<"-">> \o INFINITY, PRICE_CENT_USD,
          <<"1", "a", "b", "c">>}

DecodePaymentPayload(w) ==
  /\ call = NoCall
  /\ call' = [fn |-> "decodePaymentPayload", arg |-> w,
              result |-> decodePaymentPayload(w)]
  /\ UNCHANGED <<config, network, asset, routeMatchers, rq>>

DecodePaymentRequirements(w) ==
  /\ call = NoCall
  /\ call' = [fn |-> "decodePaymentRequirements", arg |-> w,
              result |-> decodePaymentRequirements(w)]
  /\ UNCHANGED <<config, network, asset, routeMatchers, rq>>

DecodeSettlementResponse(w) ==
  /\ call = NoCall
  /\ call' = [fn |-> "decodeSettlementResponse", arg |-> w,
              result |-> decodeSettlementResponse(w)]
  /\ UNCHANGED <<config, network, asset, routeMatchers, rq>>

UsdToBaseUnits(usdPrice) ==
  /\ call = NoCall
  /\ call' = [fn |-> "usdToBaseUnits", arg |-> usdPrice,
              result |-> usdToBaseUnits(usdPrice)]
  /\ UNCHANGED <<config, network, asset, routeMatchers, rq>>

BaseUnitsToUsd(baseUnits) ==
  /\ call = NoCall
  /\ call' = [fn |-> "baseUnitsToUsd", arg |-> baseUnits,
              result |-> baseUnitsToUsd(baseUnits)]
  /\ UNCHANGED <<config, network, asset, routeMatchers, rq>>

NextCodec ==
  \/ \E w \in PayloadWires : DecodePaymentPayload(w)
  \/ \E w \in RequirementWires : DecodePaymentRequirements(w)
  \/ \E w \in SettlementWires : DecodeSettlementResponse(w)
  \/ \E usdPrice \in PriceTexts : UsdToBaseUnits(usdPrice)
  \/ \E baseUnits \in BaseUnitTexts : BaseUnitsToUsd(baseUnits)

SpecCodec == InitConfig /\ [][NextCodec]_vars

\* ------------------------------------------------------------------------
\* One settle call of the facilitator client, step by step
\* ------------------------------------------------------------------------

\* FacilitatorClient.settle awaits request, which arms a timer that aborts
\* the fetch, awaits fetch, clears the timer, and awaits the body of the
\* response.  While the call is in progress, call holds
\*   pc       "fetch" (await fetch), "text" (await response.text()), "json"
\*            (await response.json()), "resolved", "rejected"
\*   timeout  this.config.timeout, in ticks of the clock
\*   elapsed  the ticks since the call
\*   timer    "armed", "cleared" or "fired"
\*   status   the status of the response once its head has arrived
\*   result   what the promise of the call settled with

\* largest timeout, in ticks
MaxTimeout == 2

Timeouts == 1..MaxTimeout

ResponseStatuses == {200, 400, 500}

ResponseBodies ==
  {JSONStringify(Settlement(TRUE, [transaction |-> JStr(TX_HASH)])),
   JSONStringify(Settlement(FALSE, [errorReason |-> JStr(FAIL_REASON)])),
   BadText}

SettlePayloads ==
  {Payload(NET_BASE, SIGNATURE,
           Authorization(RECIPIENT, TEN_THOUSAND, 0, MaxNow + 1)),
   Payload(NET_POLYGON, SIGNATURE,
           Authorization(RECIPIENT, TEN_THOUSAND, 0, MaxNow + 1))}

InFlight == call.fn = "settle" /\ call.pc \in {"fetch", "text", "json"}

\* settle is called: the timer is armed and the fetch is started
SettleStarts ==
  /\ call = NoCall
  /\ \E paymentPayload \in SettlePayloads, timeout \in Timeouts :
       call' = [fn |-> "settle",
                arg |-> paymentPayload,
                pc |-> "fetch",
                timeout |-> timeout,
                elapsed |-> 0,
                timer |-> "armed",
                status |-> 0,
                result |-> JUndef]
  /\ UNCHANGED <<config, network, asset, routeMatchers, rq>>

\* time passes while the call is in progress
Tick ==
  /\ InFlight
  /\ call.elapsed < MaxTimeout
  /\ call' = [call EXCEPT !.elapsed = @ + 1]
  /\ UNCHANGED <<config, network, asset, routeMatchers, rq>>

\* the head of the response arrives: fetch resolves, the timer is cleared
\* and the body is awaited
ResponseArrives(status) ==
  /\ call.fn = "settle"
  /\ call.pc = "fetch"
  /\ call' = [call EXCEPT !.status = status,
                          !.timer = "cleared",
                          !.pc = IF HttpOk(status) THEN "json" ELSE "text"]
  /\ UNCHANGED <<config, network, asset, routeMatchers, rq>>

\* the transport fails: fetch rejects and the catch clause clears the timer
FetchFails ==
  /\ call.fn = "settle"
  /\ call.pc = "fetch"
  /\ call' = [call EXCEPT !.timer = "cleared",
                          !.pc = "rejected",
                          !.result = settle(call.arg, JUndef, [k |-> "neterr"])]
  /\ UNCHANGED <<config, network, asset, routeMatchers, rq>>

\* the timer fires and aborts the controller: the pending fetch or body read
\* rejects with an AbortError, which the catch clause turns into a timeout
TimerFires ==
  /\ InFlight
  /\ call.timer = "armed"
  /\ call.elapsed >= call.timeout
  /\ call' = [call EXCEPT !.timer = "fired",
                          !.pc = "rejected",
                          !.result = settle(call.arg, JUndef, [k |-> "abort"])]
  /\ UNCHANGED <<config, network, asset, routeMatchers, rq>>

\* the body of the response is complete: it is parsed, or reported with the
\* status of a response that is not ok
BodyArrives(body) ==
  /\ call.fn = "settle"
  /\ call.pc \in {"text", "json"}
  /\ LET result == settle(call.arg, JUndef,
                          [k |-> "response", status |-> call.status, body |-> body])
     IN call' = [call EXCEPT !.timer = IF @ = "armed" THEN "cleared" ELSE @,
                             !.pc = IF result.ok THEN "resolved" ELSE "rejected",
                             !.result = result]
  /\ UNCHANGED <<config, network, asset, routeMatchers, rq>>

NextTimeout ==
  \/ SettleStarts
  \/ Tick
  \/ \E status \in ResponseStatuses : ResponseArrives(status)
  \/ FetchFails
  \/ TimerFires
  \/ \E body \in ResponseBodies : BodyArrives(body)

\* Time passes and an armed timer that is due fires; nothing obliges the
\* facilitator to answer or to finish its answer.
FairnessTimeout == WF_vars(Tick) /\ WF_vars(TimerFires)

SpecTimeout == InitConfig /\ [][NextTimeout]_vars /\ FairnessTimeout

\* ------------------------------------------------------------------------
\* Scheduling
\* ------------------------------------------------------------------------

\* The event loop resumes a handler whose awaited promise has settled; the
\* promise of the settle call is taken to settle.
Fairness ==
  \A r \in Requests :
    /\ WF_vars(SettleReturns(r))
    /\ WF_vars(ErrorHandled(r))
    /\ WF_vars(PaymentHandled(r))

SpecLive == Spec /\ Fairness

\* ------------------------------------------------------------------------
\* Vocabulary of the properties
\* ------------------------------------------------------------------------

Count(tr, e) == Cardinality({i \in DOMAIN tr : tr[i] = e})

\* every call of b has a call of a before it
Precedes(tr, a, b) ==
  \A j \in DOMAIN tr : tr[j] = b => \E i \in 1..(j - 1) : tr[i] = a

Started(q) == q.pc # "idle"

Done(q) == q.pc = "done"

\* the request resolved to a protected route
Protected(q) == Started(q) /\ q.routeConfig # JNull

NextCalled(q) == Count(q.trace, "next") > 0

SettleCalled(q) == Count(q.trace, "settle") > 0

HasHeader(q) == q.header.t = "wire"

\* the settle call of the request has returned result x
SettleReturned(q) == "ok" \in DOMAIN q.settlement

SettledWith(q, success) ==
  /\ SettleReturned(q)
  /\ q.settlement.ok
  /\ Get(q.settlement.val, "success") = JBool(success)

\* the amount required of the request, as the digits of usdToBaseUnits
RequiredAmount(q) == usdToBaseUnits(q.routeConfig.price.v).val

\* the four checks of the validator on the decoded payload of the request
NetworkMatches(q) ==
  Get(decodePaymentPayload(q.header).val, "network") = network

RecipientMatches(q) ==
  toLowerCase(Get(AuthOf(decodePaymentPayload(q.header).val), "to").v)
    = toLowerCase(config.recipient.v)

AmountBelow(q) ==
  /\ AllIn(RequiredAmount(q), DigitChars)
  /\ BigLess(StripZeros(Get(AuthOf(decodePaymentPayload(q.header).val), "value").v),
             StripZeros(RequiredAmount(q)))

AmountSuffices(q) ==
  /\ AllIn(RequiredAmount(q), DigitChars)
  /\ ~AmountBelow(q)

InTimeWindow(q) ==
  LET auth == AuthOf(decodePaymentPayload(q.header).val)
  IN /\ Get(auth, "validAfter").v * MsPerSecond <= q.dateNow
     /\ q.dateNow < (Get(auth, "validBefore").v + 1) * MsPerSecond

Decodable(q) == HasHeader(q) /\ decodePaymentPayload(q.header).ok

AllChecksPass(q) ==
  /\ Decodable(q)
  /\ NetworkMatches(q)
  /\ RecipientMatches(q)
  /\ AmountSuffices(q)
  /\ InTimeWindow(q)

\* ------------------------------------------------------------------------
\* Properties of the payment gate
\* ------------------------------------------------------------------------

\* C1: on a protected route next() is called only after the settle call of
\* that request has returned a result with success = true; it is not called
\* when the payment header is absent, when decoding fails, when a check of
\* the validator fails or when settle returns success = false.
C1_PaymentGate ==
  \A r \in DOMAIN rq :
    LET q == rq[r]
    IN (Protected(q) /\ NextCalled(q)) =>
         /\ AllChecksPass(q)
         /\ SettledWith(q, TRUE)
         /\ Count(q.trace, "settle") = 1
         /\ Precedes(q.trace, "settle", "next")

\* a protected request that was let through
C1_Witness ==
  \E r \in DOMAIN rq : Protected(rq[r]) /\ NextCalled(rq[r]) /\ Done(rq[r])

\* the response header of a request as the client decodes it
DecodedRequired(q) ==
  decodePaymentRequirements(q.headers[HEADERS.PAYMENT_REQUIRED])

\* C2: a request to a protected route without payment header gets status
\* 402, next() is not called, the payment-required header decodes to an array
\* of exactly one requirement with scheme exact, the configured network,
\* payTo the configured recipient and maxAmountRequired the base units of the
\* price of the matched rule, and the body carries the same requirement.
C2_PaymentRequired ==
  \A r \in DOMAIN rq :
    LET q == rq[r]
    IN (Protected(q) /\ ~HasHeader(q) /\ Done(q)) =>
         /\ q.status = 402
         /\ ~NextCalled(q)
         /\ HEADERS.PAYMENT_REQUIRED \in DOMAIN q.headers
         /\ DecodedRequired(q).ok
         /\ DecodedRequired(q).val.t = "array"
         /\ Len(DecodedRequired(q).val.v) = 1
         /\ Get(DecodedRequired(q).val.v[1], "scheme") = JStr(EXACT)
         /\ Get(DecodedRequired(q).val.v[1], "network") = network
         /\ Get(DecodedRequired(q).val.v[1], "payTo") = config.recipient
         /\ Get(DecodedRequired(q).val.v[1], "maxAmountRequired")
              = JStr(RequiredAmount(q))
         /\ Serialised(q.body.requirements) = DecodedRequired(q).val

\* C3: settle is called for a request only after its payment header decoded
\* and the four checks of the validator passed; a decodable payload that
\* reaches the amount check with an authorized value below maxAmountRequired
\* gets 402 with the insufficient-amount reason and settle is never called.
C3_ValidateBeforeSettle ==
  \A r \in DOMAIN rq :
    LET q == rq[r]
    IN /\ SettleCalled(q) =>
            /\ AllChecksPass(q)
            /\ Precedes(q.trace, "decode", "settle")
       /\ (/\ Protected(q) /\ Done(q) /\ Decodable(q)
           /\ NetworkMatches(q) /\ RecipientMatches(q) /\ AmountBelow(q)) =>
            /\ q.status = 402
            /\ q.body.message.k = "Insufficient amount"
            /\ ~SettleCalled(q)

\* an underfunded payload was refused
C3_Witness ==
  \E r \in DOMAIN rq :
    /\ Protected(rq[r]) /\ Done(rq[r]) /\ Decodable(rq[r])
    /\ NetworkMatches(rq[r]) /\ RecipientMatches(rq[r]) /\ AmountBelow(rq[r])
    /\ rq[r].status = 402

\* the response header of a request as the client decodes it
DecodedResponse(q) ==
  decodeSettlementResponse(q.headers[HEADERS.PAYMENT_RESPONSE])

\* C4: when settle has returned success = true, then before next() is called
\* the settlement-response header holds the encoded settlement result, a
\* receipt with the payer and the transaction of the settlement is attached
\* to the request, and a configured onPayment has been called exactly once
\* with that receipt; next() is called exactly once.
C4_SuccessBeforeNext ==
  \A r \in DOMAIN rq :
    LET q == rq[r]
    IN SettledWith(q, TRUE) =>
         /\ HEADERS.PAYMENT_RESPONSE \in DOMAIN q.headers
         /\ DecodedResponse(q) = Ok(q.settlement.val)
         /\ q.paymentReceipt.payer = Get(q.settlement.val, "payer")
         /\ (Get(q.settlement.val, "transaction") # JUndef =>
               q.paymentReceipt.transactionHash = Get(q.settlement.val, "transaction"))
         /\ Precedes(q.trace, "setHeader", "next")
         /\ Precedes(q.trace, "attachReceipt", "next")
         /\ (config.onPayment =>
               /\ q.receipts = <<q.paymentReceipt>>
               /\ Count(q.trace, "onPayment") = 1
               /\ Precedes(q.trace, "onPayment", "next"))
         /\ (~config.onPayment => q.receipts = <<>>)
         /\ Count(q.trace, "next") <= 1
         /\ (Done(q) => Count(q.trace, "next") = 1)

\* a paid request went on to the route after onPayment was called
C4_Witness ==
  \E r \in DOMAIN rq :
    /\ SettledWith(rq[r], TRUE)
    /\ Done(rq[r])
    /\ NextCalled(rq[r])
    /\ Len(rq[r].receipts) = 1
    /\ Get(rq[r].settlement.val, "transaction") # JUndef

\* the settle call of the request was rejected: timeout, transport error,
\* non-2xx answer or a body that is not JSON
SettleRejected(q) == SettleReturned(q) /\ ~q.settlement.ok

\* C5: when the settle call times out, gets a non-2xx response or a
\* malformed body, the request ends with status 402, never 500, and a
\* configured error callback has been called.
C5_SettleErrorsAre402 ==
  \A r \in DOMAIN rq :
    LET q == rq[r]
    IN (SettleRejected(q) /\ Done(q)) =>
         /\ q.status = 402
         /\ (config.onError => Len(q.errors) = 1)

\* C6: every 402 response carries the payment-required header, and the
\* header decodes to an array of exactly one requirement.
C6_Every402CarriesRequirements ==
  \A r \in DOMAIN rq :
    LET q == rq[r]
    IN (Done(q) /\ q.status = 402) =>
         /\ HEADERS.PAYMENT_REQUIRED \in DOMAIN q.headers
         /\ DecodedRequired(q).ok
         /\ DecodedRequired(q).val.t = "array"
         /\ Len(DecodedRequired(q).val.v) = 1

\* the required amount can be compared with the authorized value
AmountComparable(q) == AllIn(RequiredAmount(q), DigitChars)

\* a check of the validator fails on the decoded payload
Invalid(q) ==
  /\ Decodable(q)
  /\ \/ ~NetworkMatches(q)
     \/ ~RecipientMatches(q)
     \/ AmountComparable(q) /\ (AmountBelow(q) \/ ~InTimeWindow(q))

\* the validator threw instead of reporting
ValidatorThrew(q) ==
  /\ Decodable(q)
  /\ NetworkMatches(q)
  /\ RecipientMatches(q)
  /\ ~AmountComparable(q)

Outcome(q) ==
  [status |-> q.status, headers |-> q.headers, body |-> q.body,
   paymentReceipt |-> q.paymentReceipt, next |-> Count(q.trace, "next")]

\* C9: an exception of onPayment or onError does not change the outcome of
\* the request: after a throwing onPayment next() is called and no status is
\* set, after a throwing onError the response is the 402 or 500 of the
\* failure, and two invocations on the same input end with the same outcome
\* whatever their callbacks did.
C9_CallbackIsolation ==
  /\ \A r \in DOMAIN rq :
       LET q == rq[r]
       IN (Done(q) /\ q.cb = "throws") =>
            /\ Count(q.trace, "onPayment") = 1 =>
                 Count(q.trace, "next") = 1 /\ q.status = 0
            /\ Count(q.trace, "onError") = 1 =>
                 /\ ~NextCalled(q)
                 /\ q.status = IF ValidatorThrew(q) \/ SettleRejected(q)
                                 THEN 500 ELSE 402
  /\ \A r1, r2 \in DOMAIN rq :
       (Done(rq[r1]) /\ Done(rq[r2])) => Outcome(rq[r1]) = Outcome(rq[r2])

\* of two invocations on the same input, onError threw in one and returned
\* in the other
C9_Witness ==
  \E r1, r2 \in DOMAIN rq :
    /\ Done(rq[r1]) /\ Done(rq[r2])
    /\ rq[r1].cb = "throws" /\ rq[r2].cb = "returns"
    /\ Count(rq[r1].trace, "onError") = 1

\* C10: a callback cannot block the response path: a request that has
\* entered the handler eventually reaches its terminal outcome, also when its
\* callback never completes.
C10_CallbacksNeverBlock ==
  \A r \in Requests : Started(rq[r]) ~> Done(rq[r])

\* ------------------------------------------------------------------------
\* Properties of the settlement call
\* ------------------------------------------------------------------------

\* C11: a request calls settle at most once, and each settle call sends at
\* most one HTTP request, whatever its result.
C11_NoRetries ==
  \A r \in DOMAIN rq :
    LET q == rq[r]
    IN /\ Count(q.trace, "settle") <= 1
       /\ Len(q.settles) = Count(q.trace, "settle")
       /\ Count(q.trace, "fetch") <= Count(q.trace, "settle")
       /\ Precedes(q.trace, "settle", "fetch")

\* a settle call that was rejected has ended the request after one HTTP
\* request
C11_Witness ==
  \E r \in DOMAIN rq :
    /\ Done(rq[r])
    /\ SettleRejected(rq[r])
    /\ Count(rq[r].trace, "settle") = 1
    /\ Count(rq[r].trace, "fetch") = 1

\* ------------------------------------------------------------------------
\* Properties of the validator
\* ------------------------------------------------------------------------

\* the decoded payload of the request and its authorization
PayloadOf(q) == decodePaymentPayload(q.header).val

AuthorizationOf(q) == Get(Get(PayloadOf(q), "payload"), "authorization")

\* the reason of the refusal that the handler reports for the request
Reason(q) ==
  IF "body" \in DOMAIN q.after THEN q.after.body.message.k ELSE "none"

\* the clock reading of the request in unix seconds
UnixNow(q) ==
  CHOOSE sec \in 0..q.dateNow :
    sec * MsPerSecond <= q.dateNow /\ q.dateNow < (sec + 1) * MsPerSecond

NotYetValid(q) == UnixNow(q) < Get(AuthorizationOf(q), "validAfter").v

Expired(q) == UnixNow(q) > Get(AuthorizationOf(q), "validBefore").v

\* the first check that fails in the order network, recipient, amount,
\* time window
FirstFailing(q) ==
  IF ~NetworkMatches(q) THEN "Network mismatch"
  ELSE IF ~RecipientMatches(q) THEN "Recipient mismatch"
  ELSE IF AmountBelow(q) THEN "Insufficient amount"
  ELSE IF NotYetValid(q) THEN "Payment not yet valid"
  ELSE IF Expired(q) THEN "Payment expired"
  ELSE "none"

\* the number of checks that fail on the request
Failing(q) ==
  Cardinality({c \in {"network", "recipient", "amount", "after", "before"} :
                 \/ c = "network" /\ ~NetworkMatches(q)
                 \/ c = "recipient" /\ ~RecipientMatches(q)
                 \/ c = "amount" /\ AmountBelow(q)
                 \/ c = "after" /\ NotYetValid(q)
                 \/ c = "before" /\ Expired(q)})

\* C12: the validator runs its checks in the order network, recipient,
\* amount, time window and reports the first one that fails, and only that
\* one; a payload that fails none is handed to settle.
C12_ValidatorOrder ==
  \A r \in DOMAIN rq :
    LET q == rq[r]
    IN (Protected(q) /\ Decodable(q) /\ ~ValidatorThrew(q)) =>
         IF FirstFailing(q) = "none"
           THEN SettleCalled(q)
           ELSE /\ ~SettleCalled(q)
                /\ Reason(q) = FirstFailing(q)
                /\ Len(q.errors) = IF config.onError THEN 1 ELSE 0
                /\ \A i \in DOMAIN q.errors : q.errors[i].message.k = FirstFailing(q)

\* a payload with a network mismatch and an insufficient amount was refused
\* for its network
C12_Witness ==
  \E r \in DOMAIN rq :
    /\ Done(rq[r]) /\ Protected(rq[r]) /\ Decodable(rq[r])
    /\ ~NetworkMatches(rq[r])
    /\ AmountBelow(rq[r])
    /\ Failing(rq[r]) > 1
    /\ Reason(rq[r]) = "Network mismatch"

\* C13: when the other checks pass, a payload is accepted iff
\* validAfter <= now <= validBefore with now in unix seconds, refused as not
\* yet valid iff now < validAfter, and refused as expired iff
\* validAfter <= now and now > validBefore.
C13_TimeWindow ==
  \A r \in DOMAIN rq :
    LET q == rq[r]
        validAfter == Get(AuthorizationOf(q), "validAfter").v
        validBefore == Get(AuthorizationOf(q), "validBefore").v
    IN (/\ Protected(q) /\ Decodable(q)
        /\ NetworkMatches(q) /\ RecipientMatches(q) /\ AmountSuffices(q)) =>
         /\ SettleCalled(q) <=>
              (validAfter <= UnixNow(q) /\ UnixNow(q) <= validBefore)
         /\ Reason(q) = "Payment not yet valid" <=> UnixNow(q) < validAfter
         /\ Reason(q) = "Payment expired" <=>
              (validAfter <= UnixNow(q) /\ UnixNow(q) > validBefore)

\* a payload was accepted in the second in which it expires
C13_Witness ==
  \E r \in DOMAIN rq :
    /\ Protected(rq[r]) /\ Decodable(rq[r])
    /\ SettleCalled(rq[r])
    /\ UnixNow(rq[r]) = Get(AuthorizationOf(rq[r]), "validBefore").v

\* the natural number that a string of digits denotes
RECURSIVE NatOf(_)
NatOf(d) ==
  IF d = <<>> THEN 0
  ELSE 10 * NatOf(SubSeq(d, 1, Len(d) - 1)) + DigitVal(d[Len(d)])

\* a < b for the integers that two strings of digits denote
IntLess(a, b) ==
  LET x == StripZeros(a)
      y == StripZeros(b)
  IN IF Len(x) # Len(y) THEN Len(x) < Len(y) ELSE NatOf(x) < NatOf(y)

\* C14: when network and recipient match, a payload is refused for an
\* insufficient amount iff its authorized value is, as an integer of any
\* size, strictly less than maxAmountRequired; an equal or larger value
\* passes the check.
C14_AmountSufficiency ==
  \A r \in DOMAIN rq :
    LET q == rq[r]
        value == Get(AuthorizationOf(q), "value").v
        required == Get(q.requirements, "maxAmountRequired").v
    IN (/\ Protected(q) /\ Decodable(q) /\ AmountComparable(q)
        /\ NetworkMatches(q) /\ RecipientMatches(q)) =>
         /\ required = RequiredAmount(q)
         /\ Reason(q) = "Insufficient amount" <=> IntLess(value, required)
         /\ (~IntLess(value, required) /\ ~NotYetValid(q) /\ ~Expired(q)) =>
              SettleCalled(q)

\* a value equal to the required amount, written with leading zeros, passed
C14_Witness ==
  \E r \in DOMAIN rq :
    /\ Protected(rq[r]) /\ Decodable(rq[r])
    /\ SettleCalled(rq[r])
    /\ Get(AuthorizationOf(rq[r]), "value").v # RequiredAmount(rq[r])
    /\ ~IntLess(Get(AuthorizationOf(rq[r]), "value").v, RequiredAmount(rq[r]))
    /\ ~IntLess(RequiredAmount(rq[r]), Get(AuthorizationOf(rq[r]), "value").v)

\* two strings differ at most in the case of their letters
SameIgnoringCase(a, b) ==
  /\ Len(a) = Len(b)
  /\ \A i \in 1..Len(a) :
       \/ a[i] = b[i]
       \/ a[i] \in UpperLetters /\ LowerOf[a[i]] = b[i]
       \/ b[i] \in UpperLetters /\ LowerOf[b[i]] = a[i]

\* C15: the recipient check ignores letter case: an authorization whose to
\* address differs from the configured recipient only in case passes it and
\* any other difference is a recipient mismatch; the network check compares
\* the two strings exactly.
C15_RecipientIgnoresCase ==
  \A r \in DOMAIN rq :
    LET q == rq[r]
        to == Get(AuthorizationOf(q), "to").v
    IN (Protected(q) /\ Decodable(q)) =>
         /\ Reason(q) = "Network mismatch" <=>
              Get(PayloadOf(q), "network").v # network.v
         /\ Get(PayloadOf(q), "network").v = network.v =>
              (Reason(q) = "Recipient mismatch" <=>
                 ~SameIgnoringCase(to, config.recipient.v))

\* an authorization to the recipient in other letter case was handed to
\* settle
C15_Witness ==
  \E r \in DOMAIN rq :
    /\ Protected(rq[r]) /\ Decodable(rq[r])
    /\ Get(AuthorizationOf(rq[r]), "to").v # config.recipient.v
    /\ SameIgnoringCase(Get(AuthorizationOf(rq[r]), "to").v, config.recipient.v)
    /\ SettleCalled(rq[r])

\* ------------------------------------------------------------------------
\* Properties of the route resolution
\* ------------------------------------------------------------------------

\* the segments of a path: the pieces between its slashes
RECURSIVE Segments(_)
Segments(path) ==
  IF \A i \in 1..Len(path) : path[i] # "/" THEN <<path>>
  ELSE LET i == CHOOSE i \in 1..Len(path) :
                  path[i] = "/" /\ \A j \in 1..(i - 1) : path[j] # "/"
       IN <<SubSeq(path, 1, i - 1)>> \o Segments(SubSeq(path, i + 1, Len(path)))

IsParam(segment) == Len(segment) > 1 /\ segment[1] = ":"

\* what a pattern is meant to match: with a trailing wildcard every path that
\* starts with what precedes the wildcard; else the paths with the same
\* segments, a parameter standing for one segment that is not empty
PatternMatches(pattern, path) ==
  IF Len(pattern) > 0 /\ pattern[Len(pattern)] = "*"
    THEN /\ Len(path) >= Len(pattern) - 1
         /\ SubSeq(path, 1, Len(pattern) - 1) = SubSeq(pattern, 1, Len(pattern) - 1)
    ELSE /\ Len(Segments(pattern)) = Len(Segments(path))
         /\ \A i \in 1..Len(Segments(pattern)) :
              IF IsParam(Segments(pattern)[i])
                THEN Len(Segments(path)[i]) > 0
                ELSE Segments(pattern)[i] = Segments(path)[i]

\* the declared rules
Rules == IF HasRoutes(config) THEN config.routes.v ELSE <<>>

\* the rules whose pattern matches the path of the request
PathRules(q) == {i \in DOMAIN Rules : PatternMatches(Rules[i].path.v, q.path)}

\* the rules whose pattern and methods both match the request
Applicable(q) ==
  {i \in PathRules(q) : toUpperCase(q.method) \in routeMatchers[i].methods}

\* the amount that the 402 response of the request advertises
Advertised(q) == Get(q.body.requirements.v[1], "maxAmountRequired")

\* the amount that the validator of the request enforces
Enforced(q) == Get(q.requirements, "maxAmountRequired")

\* C16: with explicit routes the rule applied to a request is the first one
\* in declaration order whose pattern and method both match, and its price
\* is the one advertised in the 402 response and enforced on a payment, also
\* when a rule declared later matches more specifically.
C16_FirstRuleWins ==
  \A r \in DOMAIN rq :
    LET q == rq[r]
        first == CHOOSE i \in Applicable(q) : \A j \in Applicable(q) : i <= j
        amount == usdToBaseUnits(Rules[first].price.v).val
        value == Get(AuthorizationOf(q), "value").v
    IN (Started(q) /\ Applicable(q) # {}) =>
         /\ q.routeConfig = Rules[first]
         /\ (~HasHeader(q) /\ Done(q)) =>
              q.status = 402 /\ Advertised(q) = JStr(amount)
         /\ (Decodable(q) /\ FirstFailing(q) \in {"none", "Insufficient amount"}) =>
              /\ Enforced(q) = JStr(amount)
              /\ IntLess(value, amount) =>
                   ~SettleCalled(q) /\ Reason(q) = "Insufficient amount"
              /\ ~IntLess(value, amount) => SettleCalled(q)

\* a payment that covers the price of the wildcard rule declared first, and
\* not the price of the literal rule declared after it, was handed to settle
C16_Witness ==
  \E r \in DOMAIN rq :
    /\ SettleCalled(rq[r])
    /\ Cardinality(Applicable(rq[r])) > 1
    /\ \E i \in Applicable(rq[r]) :
         /\ Rules[i].path.v = rq[r].path
         /\ IntLess(Get(AuthorizationOf(rq[r]), "value").v,
                    usdToBaseUnits(Rules[i].price.v).val)

\* the method of the request is in the methods list of the rule, whatever
\* the letter case
MethodListed(rule, q) ==
  \E m \in DOMAIN rule.methods.v : SameIgnoringCase(rule.methods.v[m], q.method)

\* C17: a rule with a methods list gates the requests whose method is in
\* the list, compared without letter case; a request to the same path with
\* another method is passed through unprotected.
C17_MethodsList ==
  \A r \in DOMAIN rq :
    LET q == rq[r]
    IN \A i \in PathRules(q) :
         (Started(q) /\ Rules[i].methods.t = "array") =>
           /\ q.routeConfig = Rules[i] => MethodListed(Rules[i], q)
           /\ (MethodListed(Rules[i], q) /\ \A j \in PathRules(q) : i <= j) =>
                /\ q.routeConfig = Rules[i]
                /\ (~HasHeader(q) /\ Done(q)) => q.status = 402 /\ ~NextCalled(q)
           /\ (~MethodListed(Rules[i], q) /\ PathRules(q) = {i}) =>
                ~Protected(q) /\ q.trace = <<"next">> /\ q.status = 0

\* a request whose method the list spells in lower case was answered 402
C17_Witness ==
  \E r \in DOMAIN rq :
    /\ Done(rq[r]) /\ ~HasHeader(rq[r]) /\ rq[r].status = 402
    /\ \E i \in PathRules(rq[r]) :
         /\ rq[r].routeConfig = Rules[i]
         /\ Rules[i].methods.t = "array"
         /\ \A m \in DOMAIN Rules[i].methods.v : Rules[i].methods.v[m] # rq[r].method

\* C18: a rule declared without a methods list protects the requests of
\* every method: no request whose path matches such a rule is passed through
\* unpaid.
C18_NoMethodsMeansAll ==
  \A r \in DOMAIN rq :
    LET q == rq[r]
    IN (Started(q) /\ \E i \in PathRules(q) : Rules[i].methods.t # "array") =>
         /\ Protected(q)
         /\ NextCalled(q) => SettledWith(q, TRUE)

\* C19: patterns match the whole path: a literal pattern matches that path
\* only, a trailing wildcard matches every path with the prefix before it, a
\* parameter matches one segment that is not empty and never a slash.
C19_AnchoredPatterns ==
  \A r \in DOMAIN rq :
    LET q == rq[r]
    IN (Started(q) /\ HasRoutes(config)) =>
         /\ Protected(q) => PatternMatches(q.routeConfig.path.v, q.path)
         /\ ~Protected(q) => Applicable(q) = {}
         /\ \A i \in DOMAIN Rules :
              RegexTest(routeMatchers[i].pattern, q.path)
                <=> PatternMatches(Rules[i].path.v, q.path)

\* a request one segment longer than a literal pattern was resolved to the
\* wildcard rule declared after it
C19_Witness ==
  \E r \in DOMAIN rq :
    /\ Protected(rq[r])
    /\ rq[r].routeConfig.path.v = PATTERN_P_ALL
    /\ \E i \in DOMAIN Rules :
         /\ Rules[i].path.v # rq[r].path
         /\ Len(Rules[i].path.v) < Len(rq[r].path)
         /\ SubSeq(rq[r].path, 1, Len(Rules[i].path.v)) = Rules[i].path.v
         /\ \A j \in DOMAIN Rules : Rules[j] = rq[r].routeConfig => i < j

\* C20: with a blanket price and no explicit routes every request is
\* protected at that price, whatever its path and method.
C20_BlanketPrice ==
  \A r \in DOMAIN rq :
    LET q == rq[r]
    IN (Started(q) /\ Truthy(config.price) /\ ~HasRoutes(config)) =>
         /\ Protected(q)
         /\ q.routeConfig.price = config.price
         /\ (~HasHeader(q) /\ Done(q)) =>
              /\ q.status = 402
              /\ Advertised(q) = JStr(usdToBaseUnits(config.price.v).val)
         /\ Decodable(q) => Enforced(q) = JStr(usdToBaseUnits(config.price.v).val)
         /\ NextCalled(q) => SettledWith(q, TRUE)

\* a request of a method outside the default list was answered 402 under a
\* blanket price
C20_Witness ==
  \E r \in DOMAIN rq :
    /\ Done(rq[r]) /\ rq[r].status = 402 /\ ~HasHeader(rq[r])
    /\ ~HasRoutes(config)
    /\ \A m \in DOMAIN DefaultMethods : DefaultMethods[m] # rq[r].method

\* ------------------------------------------------------------------------
\* Properties of the construction
\* ------------------------------------------------------------------------

\* "0x" followed by the hexadecimal digits of 20 bytes
TwentyByteHex(v) ==
  /\ v.t = "string"
  /\ Len(v.v) = 42
  /\ v.v[1] = "0" /\ v.v[2] = "x"
  /\ \A i \in 3..42 : v.v[i] \in HexChars

\* a decimal numeral, digits with at most one point among them, that
\* denotes a number above zero
PositiveNumber(v) ==
  /\ v.t = "string"
  /\ Len(v.v) > 0
  /\ \A i \in DOMAIN v.v : v.v[i] \in DigitChars \cup {"."}
  /\ Cardinality({i \in DOMAIN v.v : v.v[i] = "."}) <= 1
  /\ \E i \in DOMAIN v.v : v.v[i] \in DigitChars \ {"0"}

Given(v) == v.t \notin {"undefined", "null"} /\ v # JStr(<<>>)

RoutesOf(cfg) == IF cfg.routes.t = "array" THEN cfg.routes.v ELSE <<>>

\* the configuration errors
Misconfigured(cfg) ==
  \/ ~TwentyByteHex(cfg.recipient)
  \/ ~Given(cfg.price) /\ RoutesOf(cfg) = <<>>
  \/ Given(cfg.price) /\ ~PositiveNumber(cfg.price)
  \/ \E i \in DOMAIN RoutesOf(cfg) : ~PositiveNumber(RoutesOf(cfg)[i].price)
  \/ \E i \in DOMAIN RoutesOf(cfg) : ~Given(RoutesOf(cfg)[i].path)
  \/ Given(cfg.network) /\ cfg.network.v \notin DOMAIN USDC_ADDRESSES

\* the request ended in the catch clause of the handler although the
\* facilitator answered or was never asked
FaultWithoutRejection(q) ==
  /\ Done(q)
  /\ q.status = 500
  /\ ~(SettleReturned(q) /\ ~q.settlement.ok)

\* C21: x402(config) throws and returns no handler when the recipient is
\* missing or is not a 20-byte hex address, when neither price nor routes is
\* given, when the price or a route price is not a positive number, when a
\* route has no path or when the network is unsupported; a handler that was
\* returned never ends a request with an internal error unless the
\* facilitator call failed.
C21_ConfigErrorsAtConstruction ==
  /\ (call.fn = "x402" /\ Misconfigured(call.arg)) =>
       /\ ~call.result.ok
       /\ DOMAIN rq = {}
  /\ \A r \in DOMAIN rq : ~FaultWithoutRejection(rq[r])

\* ------------------------------------------------------------------------
\* Properties of the codec
\* ------------------------------------------------------------------------

\* the call made is a call of fn
Called(fn) == call.fn = fn

\* the value whose JSON text the wire string of the call carries
Carried == call.arg.text.val

\* the wire string of the call is the Base64 form of JSON text
WellFormedWire == ~call.arg.junk /\ call.arg.text.wf

\* equality of two values as records: a key that holds undefined counts as
\* an absent key
RECURSIVE SameValue(_, _)
SameValue(a, b) ==
  IF a.t # b.t THEN FALSE
  ELSE IF a.t = "object"
    THEN \A k \in DOMAIN a.v \cup DOMAIN b.v : SameValue(Get(a, k), Get(b, k))
  ELSE IF a.t = "array"
    THEN /\ Len(a.v) = Len(b.v)
         /\ \A i \in 1..Len(a.v) : SameValue(a.v[i], b.v[i])
  ELSE a = b

\* "0x" followed by exactly n hexadecimal digits
HexText(v, n) ==
  /\ v.t = "string"
  /\ Len(v.v) = n + 2
  /\ v.v[1] = "0" /\ v.v[2] = "x"
  /\ \A i \in 3..(n + 2) : v.v[i] \in HexChars

UnsignedIntegerText(v) ==
  /\ v.t = "string"
  /\ Len(v.v) > 0
  /\ \A i \in DOMAIN v.v : v.v[i] \in DigitChars

NonEmptyText(v) == v.t = "string" /\ Len(v.v) > 0

NonNegativeInteger(v) ==
  v.t = "number" /\ "half" \notin DOMAIN v /\ v.v >= 0

\* the fields of a payment payload in the order of their checks
PayloadFieldOrder ==
  <<"x402Version", "scheme", "network", "signature", "from", "to", "value",
    "validAfter", "validBefore", "nonce">>

FieldOf(x, f) ==
  IF f \in {"x402Version", "scheme", "network"} THEN Get(x, f)
  ELSE IF f = "signature" THEN Get(Get(x, "payload"), f)
  ELSE Get(Get(Get(x, "payload"), "authorization"), f)

FieldConforms(x, f) ==
  LET v == FieldOf(x, f)
  IN CASE f = "x402Version" -> v \in {JStr(<<"1">>), JStr(<<"2", ".", "0">>)}
       [] f = "scheme" -> v = JStr(<<"e", "x", "a", "c", "t">>)
       [] f = "network" -> NonEmptyText(v)
       [] f = "signature" -> HexText(v, 130)
       [] f \in {"from", "to"} -> HexText(v, 40)
       [] f = "value" -> UnsignedIntegerText(v)
       [] f \in {"validAfter", "validBefore"} -> NonNegativeInteger(v)
       [] f = "nonce" -> HexText(v, 64)

ConformingPayload(x) ==
  /\ x.t = "object"
  /\ \A i \in DOMAIN PayloadFieldOrder : FieldConforms(x, PayloadFieldOrder[i])

\* the payload and authorization objects are in place
Structured(x) ==
  /\ x.t = "object"
  /\ Get(x, "payload").t = "object"
  /\ Get(Get(x, "payload"), "authorization").t = "object"

FirstOffending(x, order, conforms(_, _)) ==
  order[CHOOSE i \in DOMAIN order :
          /\ ~conforms(x, order[i])
          /\ \A j \in 1..(i - 1) : conforms(x, order[j])]

\* the error that names a field
ErrorNaming ==
  [x402Version |-> "Invalid x402Version",
   scheme |-> "Only exact scheme is supported",
   network |-> "Invalid or missing network",
   signature |-> "Invalid or missing signature",
   from |-> "Invalid or missing from address",
   to |-> "Invalid or missing to address",
   value |-> "Invalid or missing value",
   validAfter |-> "Invalid or missing validAfter",
   validBefore |-> "Invalid or missing validBefore",
   nonce |-> "Invalid or missing nonce",
   asset |-> "Invalid or missing asset address",
   maxAmountRequired |-> "Invalid or missing maxAmountRequired",
   payTo |-> "Invalid or missing payTo address"]

RequirementFieldOrder ==
  <<"scheme", "network", "asset", "maxAmountRequired", "payTo">>

RequirementConforms(e, f) ==
  CASE f = "scheme" -> Get(e, f) = JStr(<<"e", "x", "a", "c", "t">>)
    [] f = "network" -> NonEmptyText(Get(e, f))
    [] f \in {"asset", "payTo"} -> HexText(Get(e, f), 40)
    [] f = "maxAmountRequired" -> UnsignedIntegerText(Get(e, f))

ConformingRequirement(e) ==
  /\ e.t = "object"
  /\ \A i \in DOMAIN RequirementFieldOrder :
       RequirementConforms(e, RequirementFieldOrder[i])

ConformingRequirements(x) ==
  x.t = "array" /\ \A i \in DOMAIN x.v : ConformingRequirement(x.v[i])

ConformingSettlement(x) ==
  /\ x.t = "object"
  /\ Get(x, "success").t = "boolean"
  /\ NonEmptyText(Get(x, "network"))
  /\ Get(x, "payer").t = "string"

\* records of the three kinds
PayloadRecords ==
  GoodPayloads
    \cup {PayloadOfFields(f) :
            f \in {g \in PayloadFields :
                     /\ g.signature = JStr(SIGNATURE)
                     /\ g.from = JStr(PAYER)
                     /\ g.nonce = JStr(NONCE)
                     /\ g.validAfter = JNum(0)
                     /\ g.scheme = JStr(EXACT)}}

RequirementRecords ==
  {JArr(<<>>)}
    \cup {JArr(<<e>>) : e \in GoodRequirements}
    \cup {JArr(<<e1, e2>>) : e1, e2 \in GoodRequirements}
    \cup {JArr(<<RequirementOfFields(f)>>) :
            f \in {g \in RequirementFields : g.scheme = JStr(EXACT)}}

C23_PayloadSchema ==
  (Called("decodePaymentPayload") /\ WellFormedWire) =>
    /\ call.result.ok <=> ConformingPayload(Carried)
    /\ (~call.result.ok /\ Structured(Carried)) =>
         call.result.err.message
           = ErrorNaming[FirstOffending(Carried, PayloadFieldOrder, FieldConforms)]

\* the first element of an array of requirements that does not conform
FirstNonConforming(x) ==
  x.v[CHOOSE i \in DOMAIN x.v :
        /\ ~ConformingRequirement(x.v[i])
        /\ \A j \in 1..(i - 1) : ConformingRequirement(x.v[j])]

\* C24: decodePaymentRequirements rejects a decoded value that is not an
\* array with an error saying it must be an array; it rejects an array of
\* which any element is invalid, and the error names the first field, in the
\* order scheme, network, asset, maxAmountRequired, payTo, that the first
\* invalid element fails.
C24_RequirementsSchema ==
  (Called("decodePaymentRequirements") /\ WellFormedWire) =>
    /\ Carried.t # "array" =>
         /\ ~call.result.ok
         /\ call.result.err.message = "Payment requirements must be an array"
    /\ Carried.t = "array" =>
         /\ call.result.ok <=> ConformingRequirements(Carried)
         /\ (~call.result.ok /\ FirstNonConforming(Carried).t = "object") =>
              call.result.err.message
                = ErrorNaming[FirstOffending(FirstNonConforming(Carried),
                                             RequirementFieldOrder,
                                             RequirementConforms)]

\* an array was rejected for the asset of its second element, whose payTo is
\* invalid as well
C24_Witness ==
  /\ Called("decodePaymentRequirements")
  /\ WellFormedWire
  /\ Carried.t = "array"
  /\ Len(Carried.v) = 2
  /\ ConformingRequirement(Carried.v[1])
  /\ ~RequirementConforms(Carried.v[2], "asset")
  /\ ~RequirementConforms(Carried.v[2], "payTo")
  /\ RequirementConforms(Carried.v[2], "scheme")
  /\ RequirementConforms(Carried.v[2], "network")
  /\ ~call.result.ok
  /\ call.result.err.message = "Invalid or missing asset address"

DecodeFunctions ==
  {"decodePaymentPayload", "decodePaymentRequirements",
   "decodeSettlementResponse"}

\* the errors for text that is not Base64 of JSON
DecodeErrors ==
  {"Invalid Base64 or JSON in payment payload",
   "Invalid Base64 or JSON in payment requirements",
   "Invalid Base64 or JSON in settlement response"}

\* C25: a decode function rejects every wire string that is not well-formed
\* Base64 text and every well-formed encoding of text that is not JSON, with
\* an Invalid-Base64-or-JSON error, and it raises that error for no other
\* input.
C25_MalformedWireRejected ==
  call.fn \in DecodeFunctions =>
    /\ ~WellFormedWire =>
         /\ ~call.result.ok
         /\ call.result.err.message \in DecodeErrors
    /\ (~call.result.ok /\ call.result.err.message \in DecodeErrors) =>
         ~WellFormedWire

\* C26: decodeSettlementResponse returns only structurally valid settlement
\* results: a wire string whose JSON lacks a boolean success, a network or a
\* payer is rejected.
C26_SettlementSchema ==
  (Called("decodeSettlementResponse") /\ call.result.ok) =>
    ConformingSettlement(call.result.val)

\* C27: for every amount n of base units that is not negative,
\* usdToBaseUnits(baseUnitsToUsd(n)) is n; usdToBaseUnits of 1.00, 0.01 and
\* 0.000001 is 1000000, 10000 and 1.
C27_PriceInverse ==
  Called("usdToBaseUnits") =>
    /\ \A n \in BaseUnitTexts :
         call.arg = baseUnitsToUsd(n).val => call.result = Ok(StripZeros(n))
    /\ call.arg = <<"1", ".", "0", "0">> =>
         call.result = Ok(<<"1", "0", "0", "0", "0", "0", "0">>)
    /\ call.arg = <<"0", ".", "0", "1">> =>
         call.result = Ok(<<"1", "0", "0", "0", "0">>)
    /\ call.arg = <<"0", ".", "0", "0", "0", "0", "0", "1">> =>
         call.result = Ok(<<"1">>)

\* the value of a numeral of at most nine digits
RECURSIVE NumeralValue(_)
NumeralValue(d) ==
  IF d = <<>> THEN 0
  ELSE 10 * NumeralValue(SubSeq(d, 1, Len(d) - 1))
         + (CHOOSE n \in 0..9 : NatToDigits(n) = <<d[Len(d)]>>)

\* the digits after the point
FractionOf(s) ==
  SubSeq(s, (CHOOSE i \in DOMAIN s : s[i] = ".") + 1, Len(s))

\* the six digits of a remainder below one million
SixDigits(m) ==
  LET d == NatToDigits(m) IN [i \in 1..(6 - Len(d)) |-> "0"] \o d

\* the shortest prefix of at least two digits that leaves only zeros
Trimmed(six) ==
  SubSeq(six, 1,
         CHOOSE n \in 2..6 :
           /\ \A i \in (n + 1)..6 : six[i] = "0"
           /\ \A m \in 2..(n - 1) : \E i \in (m + 1)..6 : six[i] # "0")

\* C28: baseUnitsToUsd(n) is floor(n / 10^6), a point, and the six-digit
\* remainder without its trailing zeros but with at least two digits; the
\* result has between two and six digits after the point.
C28_BaseUnitsToUsd ==
  Called("baseUnitsToUsd") =>
    /\ call.result.ok
    /\ Len(FractionOf(call.result.val)) \in 2..6
    /\ Len(call.arg) <= 9 =>
         call.result.val
           = NatToDigits(NumeralValue(call.arg) \div 1000000) \o <<".">>
               \o Trimmed(SixDigits(NumeralValue(call.arg) % 1000000))

\* one and a half million base units became 1.50
C28_Witness ==
  /\ Called("baseUnitsToUsd")
  /\ call.arg = <<"1", "5", "0", "0", "0", "0", "0">>
  /\ call.result = Ok(<<"1", ".", "5", "0">>)

\* a numeral of a number that is not negative: digits with at most one point
NonNegativeNumeral(s) ==
  /\ \E i \in DOMAIN s : s[i] \in DigitChars
  /\ \A i \in DOMAIN s : s[i] \in DigitChars \cup {"."}
  /\ Cardinality({i \in DOMAIN s : s[i] = "."}) <= 1

\* C29: usdToBaseUnits throws an Invalid-USD-price error on every input that
\* is not a non-negative decimal number, and returns a string of digits on
\* every other input.
C29_PriceValidation ==
  Called("usdToBaseUnits") =>
    IF NonNegativeNumeral(call.arg)
      THEN /\ call.result.ok
           /\ Len(call.result.val) > 0
           /\ \A i \in DOMAIN call.result.val : call.result.val[i] \in DigitChars
      ELSE /\ ~call.result.ok
           /\ call.result.err.message = "Invalid USD price"

\* ------------------------------------------------------------------------
\* Properties of the pipeline
\* ------------------------------------------------------------------------

\* the terminal outcomes of a request so far: calls of next() and responses
\* written
Outcomes(q) == Count(q.trace, "next") + Count(q.trace, "json")

\* the stages of the pipeline that leave a mark in the trace
Stages == {"decode", "settle", "attachReceipt", "onPayment", "onError"}

\* C30: every request has at most one terminal outcome, and exactly one when
\* its handler has returned: one call of next(), or one response with
\* status 402, or one response with status 500; next() is never followed by
\* an error response, and no stage of the pipeline is entered twice.
C30_SingleOutcome ==
  \A r \in DOMAIN rq :
    LET q == rq[r]
    IN /\ Outcomes(q) <= 1
       /\ Done(q) => Outcomes(q) = 1
       /\ (Done(q) /\ Count(q.trace, "json") = 1) => q.status \in {402, 500}
       /\ \A e \in Stages : Count(q.trace, e) <= 1

\* ------------------------------------------------------------------------
\* The error callback
\* ------------------------------------------------------------------------

\* the codes of the errors that onError was called with, in order
ErrorCodes(q) == [i \in DOMAIN q.errors |-> q.errors[i].code]

\* settle returned a result whose success is not truthy
SettlementFailed(q) ==
  /\ SettleReturned(q)
  /\ q.settlement.ok
  /\ ~SettlementSucceeded(q.settlement.val)

AloneReceived(q) ==
  {Handle([IdleRequest EXCEPT !.path = q.path, !.method = q.method,
                               !.header = q.header],
          dateNow, behaviour) :
     dateNow \in ConcurrentClock, behaviour \in ConcurrentBehaviours}

AloneSettled(q) ==
  UNION {{Settled(s, settle(s.paymentPayload, s.requirements, exchange),
                  dateNow, behaviour) :
            exchange \in ConcurrentExchanges, dateNow \in ConcurrentClock,
            behaviour \in ConcurrentBehaviours} :
         s \in {x \in AloneReceived(q) : x.pc = "awaitSettle"}}

AloneCalledBack(q) ==
  LET waiting == AloneReceived(q) \cup AloneSettled(q)
  IN {[ResJson(ResStatus(s, s.after.status), s.after.body) EXCEPT !.pc = "done"] :
        s \in {x \in waiting : x.pc = "awaitOnError"}}
       \cup {CallNext(s, "returns") :
               s \in {x \in waiting : x.pc = "awaitOnPayment"}}

Alone(q) == AloneReceived(q) \cup AloneSettled(q) \cup AloneCalledBack(q)

\* the step changes the invocation of request r and of no other request
StepOf(r) ==
  /\ rq'[r] # rq[r]
  /\ \A s \in DOMAIN rq \ {r} : rq'[s] = rq[s]

\* request s ended in an error response or is about to
Failed(q) == q.errors # <<>> \/ q.status \in {402, 500}

NonceOf(q) == Get(AuthOf(decodePaymentPayload(q.header).val), "nonce")

\* the request presented a payment that passes every check of the handler
PassesValidation(q) == Protected(q) /\ AllChecksPass(q)

\* the request made one settle call, for the payload that it presented
SettledOwnPayload(q) ==
  /\ Len(q.settles) = 1
  /\ Count(q.trace, "settle") = 1
  /\ q.settles[1].paymentPayload = decodePaymentPayload(q.header).val
  /\ Get(AuthOf(q.settles[1].paymentPayload), "nonce") = NonceOf(q)

\* C33: the handler does no replay protection: of two requests that carry
\* the same valid payment payload, with the same nonce, each passes the
\* validation and each makes its own settle call, whether the other is in
\* flight or has already been settled; the handler keeps no record of the
\* nonces it has seen: its closure stays what x402(config) built.
C33_NoReplayProtection ==
  /\ \A r \in DOMAIN rq :
       PassesValidation(rq[r]) => SettledOwnPayload(rq[r])
  /\ \A r, s \in DOMAIN rq :
       (/\ r # s
        /\ PassesValidation(rq[r])
        /\ Started(rq[s])
        /\ Protected(rq[s])
        /\ rq[s].header = rq[r].header
        /\ InTimeWindow(rq[s])) =>
         /\ SettledOwnPayload(rq[s])
         /\ NonceOf(rq[s]) = NonceOf(rq[r])
  /\ network = x402(config).val.network
  /\ asset = x402(config).val.asset
  /\ routeMatchers = x402(config).val.routeMatchers

\* a payment was settled and its request continued to the route; a second
\* request with the same payment header is at its own settle call
C33_Witness ==
  /\ Done(rq["r1"])
  /\ SettledWith(rq["r1"], TRUE)
  /\ NextCalled(rq["r1"])
  /\ rq["r2"].header = rq["r1"].header
  /\ rq["r2"].pc = "awaitSettle"
  /\ rq["r2"].settles = rq["r1"].settles

\* ------------------------------------------------------------------------
\* The timeout of the settle call
\* ------------------------------------------------------------------------

\* the promise of the settle call has settled
SettleFinished == call.fn = "settle" /\ call.pc \in {"resolved", "rejected"}

\* the settle call was rejected as timed out
TimedOut ==
  /\ SettleFinished
  /\ call.result = Throw("FacilitatorError", "Request timeout")

\* C34: every settle call of the facilitator client eventually resolves or
\* rejects, also when the facilitator never answers or never finishes the
\* body of its response; a call ended by the timer is rejected with the
\* 'Request timeout' FacilitatorError, and when the call has ended the timer
\* is no longer armed.
C34_SettleTimeoutBounded ==
  /\ (call.fn = "settle") ~> SettleFinished
  /\ [](SettleFinished => call.timer # "armed")
  /\ []((SettleFinished /\ call.timer = "fired") <=> TimedOut)

\* ------------------------------------------------------------------------
\* The receipt
\* ------------------------------------------------------------------------

\* a receipt is attached to the request
HasReceipt(q) == q.paymentReceipt # JUndef

\* field name of the settlement result is absent (undefined or null)
Absent(q, name) == Get(q.settlement.val, name).t \in {"undefined", "null"}

\* C35: the receipt built after a successful settlement has the payer and
\* the transaction of the settlement (the empty string when the settlement
\* has no transaction), the USD price string of the matched rule as amount
\* (not the authorized value), the configured network, the path of the
\* request as resource, and the timestamp of the settlement when it has
\* one; the receipt attached to the request is the one passed to onPayment.
C35_ReceiptFields ==
  \A r \in DOMAIN rq :
    LET q == rq[r]
        receipt == q.paymentReceipt
    IN /\ HasReceipt(q) <=> SettleReturned(q) /\ q.settlement.ok
                              /\ SettlementSucceeded(q.settlement.val)
       /\ HasReceipt(q) =>
            /\ receipt.payer = Get(q.settlement.val, "payer")
            /\ receipt.transactionHash =
                 IF Absent(q, "transaction")
                   THEN JStr(<<>>)
                   ELSE Get(q.settlement.val, "transaction")
            /\ receipt.amount = q.routeConfig.price
            /\ receipt.amount # Get(AuthorizationOf(q), "value")
            /\ receipt.network = network
            /\ receipt.resource = JStr(q.path)
            /\ ~Absent(q, "timestamp") =>
                 receipt.timestamp = Get(q.settlement.val, "timestamp")
            /\ config.onPayment => q.receipts = <<receipt>>
       /\ q.receipts # <<>> => HasReceipt(q) /\ q.receipts = <<receipt>>

\* a settlement without transaction was turned into a receipt with an empty
\* transaction hash, which onPayment received
C35_Witness ==
  \E r \in DOMAIN rq :
    /\ HasReceipt(rq[r])
    /\ Absent(rq[r], "transaction")
    /\ rq[r].paymentReceipt.transactionHash = JStr(<<>>)
    /\ rq[r].receipts = <<rq[r].paymentReceipt>>
    /\ Done(rq[r])

\* ------------------------------------------------------------------------
\* A settlement that failed
\* ------------------------------------------------------------------------

\* the message of the response to a failed settlement
FailureMessage(q) ==
  IF Absent(q, "errorReason")
    THEN [k |-> "Payment could not be settled on-chain"]
    ELSE [k |-> "reason", text |-> Get(q.settlement.val, "errorReason").v]

\* C36: when settle returned success = false the request ends with status
\* 402 and a message that is the errorReason of the settlement when it has
\* one and a default message otherwise; the response has no
\* settlement-response header, no receipt is attached to the request,
\* onPayment is not called and next() is not called.
C36_FailedSettlement ==
  \A r \in DOMAIN rq :
    LET q == rq[r]
    IN SettledWith(q, FALSE) =>
         /\ HEADERS.PAYMENT_RESPONSE \notin DOMAIN q.headers
         /\ ~HasReceipt(q)
         /\ q.receipts = <<>>
         /\ Count(q.trace, "onPayment") = 0
         /\ ~NextCalled(q)
         /\ q.pc \in {"awaitOnError", "done"}
         /\ q.after.status = 402
         /\ q.after.body.message = FailureMessage(q)
         /\ Done(q) =>
              /\ q.status = 402
              /\ q.body.error = "Settlement Failed"
              /\ q.body.message = FailureMessage(q)

\* a settlement failed with a reason and the request ended with it in a 402
C36_Witness ==
  \E r \in DOMAIN rq :
    /\ SettledWith(rq[r], FALSE)
    /\ ~Absent(rq[r], "errorReason")
    /\ Done(rq[r])
    /\ rq[r].status = 402
    /\ rq[r].body.message = [k |-> "reason", text |-> FAIL_REASON]

\* ------------------------------------------------------------------------
\* An authorization whose window is empty
\* ------------------------------------------------------------------------

\* the authorization of the request becomes valid after it has expired
InvertedWindow(q) ==
  /\ Protected(q)
  /\ Decodable(q)
  /\ Get(AuthorizationOf(q), "validAfter").v > Get(AuthorizationOf(q), "validBefore").v

\* C37: a payload whose authorization has validAfter > validBefore never
\* reaches the settle call: at every reading of the clock one of the two
\* checks of the time window fails, and a payload that passes the checks
\* before them is refused as not yet valid or as expired.
C37_InvertedWindowNeverSettles ==
  \A r \in DOMAIN rq :
    LET q == rq[r]
    IN InvertedWindow(q) =>
         /\ q.settles = <<>>
         /\ ~SettleCalled(q)
         /\ ~SettleReturned(q)
         /\ NotYetValid(q) \/ Expired(q)
         /\ (NetworkMatches(q) /\ RecipientMatches(q) /\ AmountSuffices(q)) =>
              /\ Reason(q) = IF NotYetValid(q) THEN "Payment not yet valid"
                                               ELSE "Payment expired"
              /\ ErrorCodes(q) = IF config.onError THEN <<"INVALID_PAYLOAD">>
                                                   ELSE <<>>
              /\ q.after.status = 402

\* an authorization with validAfter > validBefore was presented when its
\* validAfter had been reached, and was refused as expired
C37_Witness ==
  \E r \in DOMAIN rq :
    /\ InvertedWindow(rq[r])
    /\ ~NotYetValid(rq[r])
    /\ Done(rq[r])
    /\ Reason(rq[r]) = "Payment expired"
    /\ rq[r].status = 402

\* ------------------------------------------------------------------------
\* A blanket price next to a rule list
\* ------------------------------------------------------------------------

\* the configuration has a blanket price and a rule list that is not empty
PriceAndRoutes == config # JUndef /\ Truthy(config.price) /\ HasRoutes(config)

\* C38: when the configuration has a blanket price and a rule list that is
\* not empty, the rules take precedence: a request that no rule matches is
\* passed through unprotected, and a protected request is held to the price
\* of its rule, never to the blanket price.
C38_RoutesOverBlanketPrice ==
  \A r \in DOMAIN rq :
    LET q == rq[r]
    IN (PriceAndRoutes /\ Started(q)) =>
         /\ Applicable(q) = {} =>
              /\ ~Protected(q)
              /\ q.trace = <<"next">>
              /\ q.status = 0
              /\ q.settles = <<>>
         /\ Protected(q) =>
              /\ Applicable(q) # {}
              /\ \E i \in Applicable(q) : q.routeConfig = Rules[i]
              /\ q.routeConfig.path # JStr(STAR)
              /\ (~HasHeader(q) /\ Done(q)) =>
                   Advertised(q) = JStr(usdToBaseUnits(q.routeConfig.price.v).val)
              /\ Decodable(q) =>
                   Enforced(q) = JStr(usdToBaseUnits(q.routeConfig.price.v).val)

\* under a blanket price of one cent and a rule of five cents, a request
\* that the rule does not match was passed through and a request that it
\* matches was asked for five cents
C38_Witness ==
  \E r \in DOMAIN rq :
    /\ PriceAndRoutes
    /\ Done(rq[r])
    /\ Applicable(rq[r]) = {}
    /\ rq[r].trace = <<"next">>
    /\ config.price = JStr(PRICE_CENT)

\* ------------------------------------------------------------------------
\* The two callbacks
\* ------------------------------------------------------------------------

\* C39: at most one of the two callbacks is called for a request: once
\* onPayment has been called, onError is never called for the request and no
\* error response is written for it, also when the continuation to the
\* protected resource raises a fault.
C39_AtMostOneCallback ==
  \A r \in DOMAIN rq :
    LET q == rq[r]
    IN /\ q.receipts = <<>> \/ q.errors = <<>>
       /\ Count(q.trace, "onPayment") > 0 =>
            /\ Count(q.trace, "onError") = 0
            /\ q.pc # "awaitOnError"
            /\ q.status \notin {402, 500}
            /\ Count(q.trace, "json") = 0

\* ------------------------------------------------------------------------
\* The required amount
\* ------------------------------------------------------------------------

\* v is the decimal text of an integer above zero
PositiveIntegerText(v) ==
  /\ v.t = "string"
  /\ Len(v.v) > 0
  /\ AllIn(v.v, DigitChars)
  /\ ~IsZeroDigits(v.v)

\* C40: under every configuration that x402() accepts, the maxAmountRequired
\* advertised in a 402 response, enforced on a payment and passed to settle
\* is the text of an integer above zero, so that no authorization of value
\* zero reaches the settle call.
C40_PositiveRequirement ==
  \A r \in DOMAIN rq :
    LET q == rq[r]
    IN Protected(q) =>
         /\ (~HasHeader(q) /\ Done(q) /\ q.status = 402) =>
              PositiveIntegerText(Advertised(q))
         /\ q.requirements # JUndef => PositiveIntegerText(Enforced(q))
         /\ \A i \in DOMAIN q.settles :
              /\ PositiveIntegerText(
                   Get(q.settles[i].paymentRequirements, "maxAmountRequired"))
              /\ PositiveIntegerText(
                   Get(AuthOf(q.settles[i].paymentPayload), "value"))

====
